---- MODULE Spec2Model ----
(***************************************************************************)
(* Try-job integration of the Task Scheduler with Buildbucket              *)
(* (package tryjobs, TryJobIntegrator).  The model holds the job database, *)
(* the in-memory job cache, the remote build service as far as the         *)
(* integrator can observe it, and the position of each periodic loop:      *)
(* Poll (intake), startJobsLoop (job starter) and updateJobs (heartbeats   *)
(* and completion reconciler).                                             *)
(***************************************************************************)
EXTENDS Integers, Sequences, FiniteSets, TLC

\* ------------------------------------------------------------------ bounds
\* Builds known to the remote service.
NumBuilds == 1
\* Job records the database can hold.
MaxJobs == 1
\* Leases the remote service grants for one build.
MaxLeases == 2
\* Pages one Poll pass reads before the service returns an empty cursor.
MaxPages == 1
\* Started jobs in the database of the update tick taken on its own.
BatchJobs == 2
\* Poll calls that may run at the same time, in the intake taken on its own.
NumPasses == 2
\* Job records the database of the intake taken on its own can hold.
IntakeJobs == 2
\* Builds of the remote service in the cleanup taken on its own.
CleanupBuilds == 2

Builds == 1..NumBuilds
JobIds == 1..MaxJobs

\* ------------------------------------------------------- program constants
JOB_STATUS_REQUESTED == "REQUESTED"
JOB_STATUS_IN_PROGRESS == "IN_PROGRESS"
JOB_STATUS_SUCCESS == "SUCCESS"
JOB_STATUS_FAILURE == "FAILURE"
JOB_STATUS_MISHAP == "MISHAP"
JOB_STATUS_CANCELED == "CANCELED"

BUILDBUCKET_API_ERROR_REASON_COMPLETED == "BUILD_IS_COMPLETED"
BUILDBUCKET_API_ERROR_REASON_INVALID_INPUT == "INVALID_INPUT"
BUILDBUCKET_API_ERROR_REASON_LEASE_EXPIRED == "LEASE_EXPIRED"
\* A rejection reason the integrator has no branch for.
REASON_OTHER == "BUILD_NOT_FOUND"

buildAlreadyStartedErr == "has recorded another StartBuild with request id"
buildAlreadyFinishedErr == "cannot update an ended build"
\* The errors the v2 API returns for a repeated StartBuild and for an
\* UpdateBuild of an ended build.
ErrAlreadyStarted == "rpc error: build has recorded another StartBuild with request id 1"
ErrAlreadyFinished == "rpc error: cannot update an ended build"
\* strings.Contains, on the error messages of the model.
Contains(s, sub) ==
  \/ s = sub
  \/ s = ErrAlreadyStarted /\ sub = buildAlreadyStartedErr
  \/ s = ErrAlreadyFinished /\ sub = buildAlreadyFinishedErr
\* A transport failure that carries neither substring.
ErrTransport == "rpc error: unavailable"
\* The nil error and the nil *LegacyApiErrorMessage.
Nil == ""

\* The bucket the integrator is set up for (t.buildbucketBucket), and another.
BUCKET_PRIMARY == "skia.primary"
BUCKET_INTERNAL == "skia.internal"
buildbucketBucket == BUCKET_PRIMARY

\* Statuses of a remote build, as the v2 API reports them.
SCHEDULED == "SCHEDULED"
STARTED == "STARTED"
ENDED == "ENDED"

\* ------------------------------------------------------------- the job type
\* The patch of a RepoState, as insertNewJobV1 fills it in.
Patch(issue, repoUrl) ==
  [Server |-> "https://skia-review.googlesource.com", Issue |-> issue,
   PatchRepo |-> repoUrl, Patchset |-> "1"]

\* A status message: its format, the argument formatted into it and its
\* length in characters.
Msg(text, arg, len) == [text |-> text, arg |-> arg, len |-> len]
NoDetails == Msg("", "", 0)
\* util.Truncate(s, n): s cut to at most n characters.
Truncate(m, n) == IF m.len > n THEN [m EXCEPT !.len = n] ELSE m

\* A job that is done has a status other than REQUESTED and IN_PROGRESS.
Done(j) == j.Status \notin {JOB_STATUS_REQUESTED, JOB_STATUS_IN_PROGRESS}

isBBv2(j) == j.BuildbucketPubSubTopic # ""

\* RepoState.Valid: repo and revision are set and the patch, when there is
\* one, is complete.  RepoState.IsTryJob: the patch is complete.
PatchFull(p) == p.Server # "" /\ p.Issue # "" /\ p.Patchset # "" /\ p.PatchRepo # ""
PatchEmpty(p) == p.Server = "" /\ p.Issue = "" /\ p.Patchset = "" /\ p.PatchRepo = ""
RepoStateValid(j) ==
  /\ j.Repo # ""
  /\ j.Revision # ""
  /\ (PatchEmpty(j.Patch) \/ PatchFull(j.Patch))
IsTryJob(j) == PatchFull(j.Patch)

skipRepoState(j) == j.Patch.Issue = "527502" /\ j.Patch.Patchset = "1"

\* ------------------------------------------------------------ configuration
\* projectRepoMapping: code-review project -> repository URL.
KnownProjects == {"skia"}
projectRepoMapping(project) == IF project \in KnownProjects THEN "skia.git" ELSE ""
\* projectKnown with every project taken as mapped.
projectKnownAlways(project) == TRUE
\* Line 602, the ok of the map lookup.
projectKnown(project) == project \in KnownProjects
\* rm: the repositories the scheduler has a graph for.
RepoMap == {"skia.git"}
\* repograph.Graph.Get: a branch name or a commit hash to the commit's hash;
\* Nil when the graph has no such commit.
RepoGet(ref) == IF ref \in {"main", "abc123"} THEN "abc123" ELSE Nil
\* The task configuration of a RepoState: job name -> task names of its DAG.
CfgJobs == {"my-builder"}
GetTaskSpecDAG(name) == {"Build", "Test"}

\* ---------------------------------------------------------------- the state
VARIABLES
  db,        \* job database: job id -> job, for the ids in use
  jCache,    \* in-memory job cache: job id -> job
  bb,        \* remote service: build id -> [Status, LeaseKey, Old, Bucket]
  jobsCh,    \* modified-jobs stream: jobs not yet delivered to the starter
  poll,      \* position of the Poll pass
  starter,   \* position of startJobsLoop
  upd,       \* position of the updateJobs tick
  notified,  \* builds for which a terminal notification succeeded
  crashed,   \* the process died of a panic
  ev,        \* what the last step did: the handler, its remote calls, its result
  life       \* Start: its context, the ticks of its loops that are under way

vars == <<db, jCache, bb, jobsCh, poll, starter, upd, notified, crashed, ev, life>>

\* Start, lines 164-207, right after it returned: the context is live, no tick
\* of the three periodic loops is under way (0 calls made), and startJobsLoop
\* waits in its select.
LifeStart == [done |-> FALSE, update |-> 0, poll |-> 0, cleanup |-> 0, starter |-> "select"]

\* --------------------------------------------------------- database, cache
\* The id PutJob gives a job that has none yet.
FreeIds(d) == JobIds \ DOMAIN d
NewId(d) == CHOOSE i \in FreeIds(d) : \A k \in FreeIds(d) : i <= k

\* db.PutJob / db.PutJobsInChunks of the jobs js (a function id -> job).
PutJobs(d, js) == [i \in DOMAIN d \cup DOMAIN js |-> IF i \in DOMAIN js THEN js[i] ELSE d[i]]
\* jCache.AddJobs
AddJobs(c, js) == [i \in DOMAIN c \cup DOMAIN js |-> IF i \in DOMAIN js THEN js[i] ELSE c[i]]
One(j) == [i \in {j.Id} |-> j]

\* db.ModifiedJobsCh: every written job is sent to the stream.  The starter
\* drops a received job whose status is not REQUESTED without any effect, so
\* the stream keeps only the jobs that pass that test.
ModifiedJobsCh(ch, js) ==
  ch \cup {js[i] : i \in {k \in DOMAIN js : js[k].Status = JOB_STATUS_REQUESTED}}

\* db.SearchJobs by build id (findJobForBuild returns the first match).
JobsForBuild(d, b) == {i \in DOMAIN d : d[i].BuildbucketBuildId = b}

\* ------------------------------------------------------- remote build client
\* A remote call is recorded as [api, build, resp, ok]: resp is the error or
\* the rejection reason it came back with, Nil for none.
Call(api, b, resp) == [api |-> api, build |-> b, resp |-> resp, ok |-> resp = Nil]
TerminalApis == {"Succeed", "Fail", "UpdateBuild", "CancelBuild", "Cancel"}

\* tryLeaseV1Build: [leaseKey, bbError, err] and the remote state after it.
\* The service grants a lease with a fresh key, refuses with a reason, answers
\* without a build (zero key), or the request fails.
tryLeaseV1Build(bbs, id) ==
  LET R(k, be, e, bbs2) ==
        [leaseKey |-> k, bbError |-> be, err |-> e, bb |-> bbs2,
         calls |-> <<Call("Lease", id, IF e # Nil THEN e ELSE IF be # Nil THEN be
                                         ELSE IF k = 0 THEN "zero lease key" ELSE Nil)>>]
  IN  {R(0, Nil, ErrTransport, bbs)}
      \cup {R(0, r, Nil, bbs) : r \in {BUILDBUCKET_API_ERROR_REASON_INVALID_INPUT,
                                       BUILDBUCKET_API_ERROR_REASON_COMPLETED}}
      \cup {R(0, Nil, Nil, bbs)}
      \cup (IF bbs[id].LeaseKey < MaxLeases
              THEN {R(bbs[id].LeaseKey + 1, Nil, Nil,
                      [bbs EXCEPT ![id].LeaseKey = @ + 1])}
              ELSE {})

\* remoteCancelV1Build: the error it returns and the remote state after it.
remoteCancelV1Build(bbs, id) ==
  LET R(e, bbs2) == [err |-> e, bb |-> bbs2, calls |-> <<Call("Cancel", id, e)>>]
  IN  {R(ErrTransport, bbs)}
      \cup (IF bbs[id].Status = ENDED
              THEN {R(BUILDBUCKET_API_ERROR_REASON_COMPLETED, bbs)}
              ELSE {R(Nil, [bbs EXCEPT ![id].Status = ENDED])})

\* ------------------------------------------------------------ intake (Poll)
\* What bb2.GetBuild reports of a build besides its status.
GerritChange(project, issue) == [Project |-> project, Change |-> issue]
BuildInputs ==
  [GerritChanges : {<<>>,
                    <<GerritChange("skia", "1234")>>,
                    <<GerritChange("skia", "527502")>>,
                    <<GerritChange("chromium", "1234")>>,
                    <<GerritChange("skia", "1234"), GerritChange("skia", "1235")>>},
   CreateTimeOK : BOOLEAN]

\* NewJobV1 with the revision filled in with the branch of the change.
NewJobV1Resolved(buildId, gerritChange) ==
  [Id |-> 0,
   Name |-> "my-builder",
   BuildbucketBuildId |-> buildId,
   BuildbucketLeaseKey |-> 0,
   BuildbucketToken |-> "",
   BuildbucketPubSubTopic |-> "",
   Repo |-> projectRepoMapping(gerritChange.Project),
   Revision |-> "main",
   Patch |-> Patch(gerritChange.Change, projectRepoMapping(gerritChange.Project)),
   Status |-> JOB_STATUS_REQUESTED,
   StatusDetails |-> NoDetails,
   Finished |-> 0,
   Dependencies |-> {},
   IsForce |-> FALSE]

\* The job insertNewJobV1 builds for a build (lines 610-633), before the lease.
NewJobV1(buildId, gerritChange) ==
  LET repoUrl == projectRepoMapping(gerritChange.Project)
  IN  [Id |-> 0,
       Name |-> "my-builder",
       BuildbucketBuildId |-> buildId,
       BuildbucketLeaseKey |-> 0,
       BuildbucketToken |-> "",
       BuildbucketPubSubTopic |-> "",
       Repo |-> repoUrl,
       Revision |-> "",
       Patch |-> Patch(gerritChange.Change, repoUrl),
       Status |-> JOB_STATUS_REQUESTED,
       StatusDetails |-> NoDetails,
       Finished |-> 0,
       Dependencies |-> {},
       IsForce |-> FALSE]

\* The build bb2.GetBuild returned: none (got is FALSE), or its input.
NoInput == [got |-> FALSE, GerritChanges |-> <<>>, CreateTimeOK |-> FALSE]
GotInput(in) ==
  [got |-> TRUE, GerritChanges |-> in.GerritChanges, CreateTimeOK |-> in.CreateTimeOK]

\* leaseInvalidInput without the special case: no rejection is ignored.
leaseInvalidInputNever(bbError) == FALSE

\* Line 643: the rejection of a build that follows the async protocol.
leaseInvalidInput(bbError) == bbError = BUILDBUCKET_API_ERROR_REASON_INVALID_INPUT

\* insertNewJobV1 after findJobForBuild found no job: the set of its possible
\* outcomes [ret, jobs, bb, calls, input].  ret is the returned error, jobs
\* holds the job put into the database and the cache (none, or one), input the
\* build it was given.  dbFull: the database holds MaxJobs jobs, and db.PutJob
\* can only fail.
insertNewJobV1(bbs, buildId, dbFull) ==
  LET Out(ret, jobs, bbs2, calls) ==
        [ret |-> ret, jobs |-> jobs, bb |-> bbs2, calls |-> calls, input |-> NoInput]
      \* return t.remoteCancelV1Build(...)
      RetCancel(bbs1, calls1) ==
        {Out(c.err, {}, c.bb, calls1 \o c.calls) : c \in remoteCancelV1Build(bbs1, buildId)}
      \* lines 638-666
      LeaseAndPut(bbs1, calls1, j) ==
        UNION {
          IF l.err # Nil THEN {Out(l.err, {}, l.bb, calls1 \o l.calls)}
          ELSE IF l.bbError # Nil THEN
            IF leaseInvalidInput(l.bbError)
              THEN {Out(Nil, {}, l.bb, calls1 \o l.calls)}
              ELSE RetCancel(l.bb, calls1 \o l.calls)
          ELSE IF l.leaseKey = 0 THEN RetCancel(l.bb, calls1 \o l.calls)
          ELSE
            \* db.PutJob fails, or stores the job
            RetCancel(l.bb, calls1 \o l.calls)
            \cup (IF dbFull THEN {}
                  ELSE {Out(Nil, {[j EXCEPT !.BuildbucketLeaseKey = l.leaseKey]},
                            l.bb, calls1 \o l.calls)})
          : l \in tryLeaseV1Build(bbs1, buildId)}
      \* lines 597-637
      Validate(bbs1, calls1, in) ==
        IF Len(in.GerritChanges) # 1 THEN RetCancel(bbs1, calls1)
        ELSE IF ~projectKnown(in.GerritChanges[1].Project) THEN RetCancel(bbs1, calls1)
        ELSE IF ~in.CreateTimeOK THEN RetCancel(bbs1, calls1)
        ELSE LeaseAndPut(bbs1, calls1, NewJobV1(buildId, in.GerritChanges[1]))
      \* lines 583-595
      NotScheduled(in) ==
        UNION {
          IF l.err # Nil \/ l.bbError # Nil THEN {Out(Nil, {}, l.bb, l.calls)}
          ELSE UNION {
            IF c.err # Nil THEN {Out(Nil, {}, c.bb, l.calls \o c.calls)}
            ELSE Validate(c.bb, l.calls \o c.calls, in)
            : c \in remoteCancelV1Build(l.bb, buildId)}
          : l \in tryLeaseV1Build(bbs, buildId)}
  IN  \* bb2.GetBuild fails
      {Out(ErrTransport, {}, bbs, <<Call("GetBuild", buildId, ErrTransport)>>)}
      \cup UNION {
        {[o EXCEPT !.input = GotInput(in)]
         : o \in IF bbs[buildId].Status # SCHEDULED THEN NotScheduled(in)
                 ELSE Validate(bbs, <<>>, in)}
        : in \in BuildInputs}

\* The event a step leaves in ev.
Event(op, job, build, ret, calls) ==
  [op |-> op, job |-> job, build |-> build, ret |-> ret, calls |-> calls]
NoEvent == Event("none", 0, 0, Nil, <<>>)
\* The event of one build of a Poll page: the job created (0 for none) and
\* the build's input.
InsertEvent(job, build, ret, calls, input) ==
  [op |-> "insertNewJobV1", job |-> job, build |-> build, ret |-> ret, calls |-> calls,
   input |-> input]

\* A terminal remote call that succeeded, or that the service answered as
\* already done.
ToldRemote(call) ==
  /\ call.api \in TerminalApis
  /\ call.resp \in {Nil, BUILDBUCKET_API_ERROR_REASON_COMPLETED, ErrAlreadyFinished}
\* The builds such calls of a step were about are marked as notified.
Notify(n, calls) == n \cup {calls[i].build : i \in {k \in DOMAIN calls : ToldRemote(calls[k])}}

\* The position of a pass.  cursor is the cursor of line 846 (0 for the empty
\* one); served and handed keep, for the properties, the pages the service
\* answered with and the builds a goroutine of lines 863-870 was started for.
PollIdle ==
  [pc |-> "idle", pages |-> 0, todo |-> {}, next |-> FALSE, errs |-> {},
   cursor |-> 0, served |-> <<>>, handed |-> <<>>]

\* Poll, lines 841-843: jCache.Update resyncs the cache from the database, or
\* fails and ends the pass.
PollBegin ==
  /\ ~crashed
  /\ poll.pc = "idle"
  /\ \/ /\ jCache' = db
        /\ poll' = [PollIdle EXCEPT !.pc = "peek"]
        /\ ev' = Event("PollBegin", 0, 0, Nil, <<>>)
     \/ /\ ev' = [op |-> "Poll", ret |-> "failed to update job cache", errs |-> {}, calls |-> <<>>]
        /\ UNCHANGED <<jCache, poll>>
  /\ UNCHANGED <<db, bb, jobsCh, starter, upd, notified, crashed>>
  /\ UNCHANGED life

\* The value Poll returns, lines 880-884.
PollResult(errs) == IF errs # {} THEN "got errors loading builds from Buildbucket" ELSE Nil

\* The end of a pass: the errors collected and the value returned.
PollEvent(errs, calls) ==
  [op |-> "Poll", ret |-> PollResult(errs), errs |-> errs, calls |-> calls]

\* bb.Peek as it is recorded: a call with the StartCursor of its request.
PeekCall(cursor, resp) ==
  [api |-> "Peek", build |-> 0, resp |-> resp, ok |-> resp = Nil, cursor |-> cursor]

\* One bb.Peek, lines 851-871, of a service that holds the builds `builds` on
\* at most maxPages pages: the request fails, the response carries an error,
\* or it carries a page of builds and the cursor of the next page (0: none).
PollPeekOf(builds, maxPages) ==
  /\ ~crashed
  /\ poll.pc = "peek"
  /\ \/ \E e \in {ErrTransport, REASON_OTHER} :
          /\ poll' = PollIdle
          /\ ev' = PollEvent(poll.errs \cup {<<0, e>>}, <<PeekCall(poll.cursor, e)>>)
     \/ \E page \in SUBSET builds, next \in BOOLEAN :
          /\ next => poll.pages + 1 < maxPages
          /\ poll' = [poll EXCEPT !.pc = "page", !.todo = page, !.next = next,
                                  !.served = Append(@, [builds |-> page, cursor |-> poll.cursor,
                                                        nextCursor |-> IF next THEN poll.pages + 1
                                                                       ELSE 0])]
          /\ ev' = Event("Peek", 0, 0, Nil, <<PeekCall(poll.cursor, Nil)>>)
  /\ UNCHANGED <<db, jCache, bb, jobsCh, starter, upd, notified, crashed>>
  /\ UNCHANGED life

PollPeek == PollPeekOf(Builds, MaxPages)

\* One goroutine of a page, lines 863-870: findJobForBuild, then insertNewJobV1.
PollInsert(b) ==
  /\ ~crashed
  /\ poll.pc = "page"
  /\ b \in poll.todo
  /\ \/ \* db.SearchJobs fails
        /\ poll' = [poll EXCEPT !.todo = @ \ {b}, !.errs = @ \cup {<<b, ErrTransport>>},
                                !.handed = Append(@, <<Len(poll.served), b>>)]
        /\ ev' = InsertEvent(0, b, ErrTransport, <<>>, NoInput)
        /\ UNCHANGED <<db, jCache, bb, jobsCh, notified>>
     \/ \* an existing job: ignore the build
        /\ JobsForBuild(db, b) # {}
        /\ poll' = [poll EXCEPT !.todo = @ \ {b},
                                !.handed = Append(@, <<Len(poll.served), b>>)]
        /\ ev' = InsertEvent(0, b, Nil, <<>>, NoInput)
        /\ UNCHANGED <<db, jCache, bb, jobsCh, notified>>
     \/ /\ JobsForBuild(db, b) = {}
        /\ \E o \in insertNewJobV1(bb, b, FreeIds(db) = {}) :
             LET js == IF o.jobs = {} THEN <<>>
                       ELSE One([(CHOOSE j \in o.jobs : TRUE) EXCEPT !.Id = NewId(db)])
             IN  /\ db' = PutJobs(db, js)
                 /\ jCache' = AddJobs(jCache, js)
                 /\ jobsCh' = ModifiedJobsCh(jobsCh, js)
                 /\ bb' = o.bb
                 /\ notified' = Notify(notified, o.calls)
                 /\ poll' = [poll EXCEPT !.todo = @ \ {b},
                                         !.errs = IF o.ret # Nil THEN @ \cup {<<b, o.ret>>} ELSE @,
                                         !.handed = Append(@, <<Len(poll.served), b>>)]
                 /\ ev' = InsertEvent(IF o.jobs = {} THEN 0 ELSE NewId(db), b, o.ret,
                                       o.calls, o.input)
  /\ UNCHANGED <<starter, upd, crashed>>
  /\ UNCHANGED life

\* lastPage that takes every page for the last one.
lastPageAlways(cursor) == TRUE
\* Line 874: the cursor of the response is empty.
lastPage(cursor) == cursor = 0

\* wg.Wait and the cursor test, lines 872-876; the end of the pass, 880-884.
PollJoin ==
  /\ ~crashed
  /\ poll.pc = "page"
  /\ poll.todo = {}
  /\ LET cursor == poll.served[Len(poll.served)].nextCursor
     IN  IF ~lastPage(cursor)
           THEN /\ poll' = [poll EXCEPT !.pc = "peek", !.pages = @ + 1, !.next = FALSE,
                                        !.cursor = cursor]
                /\ ev' = Event("PollPage", 0, 0, Nil, <<>>)
           ELSE /\ poll' = PollIdle
                /\ ev' = PollEvent(poll.errs, <<>>)
  /\ UNCHANGED <<db, jCache, bb, jobsCh, starter, upd, notified, crashed>>
  /\ UNCHANGED life

\* ------------------------------------------------------------- job starter
isBuildAlreadyStartedError(err) == err # Nil /\ Contains(err, buildAlreadyStartedErr)
isBuildAlreadyFinishedError(err) == err # Nil /\ Contains(err, buildAlreadyFinishedErr)

\* The time now.Now returns: any non-zero time.
Now == 1

\* localCancelJobs of the jobs js (id -> job) with reasons (id -> message):
\* the possible outcomes [err, db, jCache, jobsCh].
localCancelJobs(d, c, ch, js, reasons) ==
  IF DOMAIN js # DOMAIN reasons
    THEN {[err |-> "expected jobs and reasons to have the same length",
           db |-> d, jCache |-> c, jobsCh |-> ch]}
    ELSE
      LET canceled == [i \in DOMAIN js |->
                         [js[i] EXCEPT !.BuildbucketLeaseKey = 0,
                                       !.Status = JOB_STATUS_CANCELED,
                                       !.StatusDetails = reasons[i],
                                       !.Finished = Now]]
      IN  {[err |-> ErrTransport, db |-> d, jCache |-> c, jobsCh |-> ch],
           [err |-> Nil, db |-> PutJobs(d, canceled), jCache |-> AddJobs(c, canceled),
            jobsCh |-> ModifiedJobsCh(ch, canceled)]}

\* jobStarted: [token, bbError, err], the remote state after it and the call.
\* A build that was started before answers a second StartBuild with the
\* already-started error; a request may fail after the service recorded it.
jobStarted(bbs, j) ==
  LET b == j.BuildbucketBuildId
      R(tok, be, e, bbs2) ==
        [token |-> tok, bbError |-> be, err |-> e, bb |-> bbs2,
         calls |-> <<[api |-> "Start", build |-> b, resp |-> IF e # Nil THEN e ELSE be,
                      ok |-> e = Nil /\ be = Nil, token |-> tok]>>]
      started == [bbs EXCEPT ![b].Status = STARTED]
  IN  IF isBBv2(j)
        THEN {R("", Nil, ErrTransport, bbs)}
             \cup (CASE bbs[b].Status = SCHEDULED ->
                          {R("tok1", Nil, Nil, started), R("", Nil, Nil, started),
                           R("", Nil, ErrTransport, started)}
                     [] bbs[b].Status = STARTED -> {R("", Nil, ErrAlreadyStarted, bbs)}
                     [] OTHER -> {})
        ELSE {R("", Nil, ErrTransport, bbs),
              R("", BUILDBUCKET_API_ERROR_REASON_LEASE_EXPIRED, Nil, bbs)}
             \cup (CASE bbs[b].Status = SCHEDULED ->
                          {R("", Nil, Nil, started), R("", Nil, ErrTransport, started)}
                     [] bbs[b].Status = STARTED -> {R("", Nil, Nil, bbs)}
                     [] OTHER -> {R("", BUILDBUCKET_API_ERROR_REASON_COMPLETED, Nil, bbs)})

\* What the collaborators of startJobHelper answer: Gerrit, the task-config
\* cache and the job cache.
StartInputs ==
  [gerrit : {ErrTransport, "main", "deleted-branch"},
   cfg : {"GetOrCacheRepoState failed", "Get failed", "cached error", "no such job",
          "GetTaskSpecDAG failed", "ok"},
   byRepoState : {ErrTransport, "ok"}]

\* startJobHelper, lines 737-795: whether it failed, the error's message and
\* the job as the helper left it.
startJobHelper(c, job, in) ==
  LET Fail(text, len, j) == [failed |-> TRUE, err |-> Msg(text, "", len), job |-> j]
      Ok(j) == [failed |-> FALSE, err |-> NoDetails, job |-> j]
      rev == IF job.Revision = ""
               THEN IF job.Patch.Issue = "" \/ in.gerrit = ErrTransport THEN Nil
                    ELSE RepoGet(in.gerrit)
               ELSE RepoGet(job.Revision)
      j1 == [job EXCEPT !.Revision = rev]
      j2 == [j1 EXCEPT !.Dependencies = GetTaskSpecDAG(job.Name)]
      prevJobs == {i \in DOMAIN c : /\ c[i].Name = j2.Name
                                    /\ c[i].Repo = j2.Repo
                                    /\ c[i].Revision = j2.Revision
                                    /\ c[i].Patch = j2.Patch}
  IN  IF job.Repo \notin RepoMap THEN Fail("unable to find repo", 40, job)
      ELSE IF rev = Nil THEN Fail("failed to find base revision", 60, job)
      ELSE IF ~RepoStateValid(j1) \/ ~IsTryJob(j1) \/ skipRepoState(j1)
        THEN Fail("invalid RepoState", 100, j1)
      ELSE IF in.cfg \in {"GetOrCacheRepoState failed", "Get failed"}
        THEN Fail(in.cfg, 60, j1)
      ELSE IF in.cfg = "cached error" THEN Fail(in.cfg, 2000, j1)
      ELSE IF in.cfg = "no such job" \/ job.Name \notin CfgJobs THEN Fail("no such job", 30, j1)
      ELSE IF in.cfg = "GetTaskSpecDAG failed" THEN Fail(in.cfg, 50, j1)
      ELSE IF in.byRepoState = ErrTransport THEN Fail("GetJobsByRepoState failed", 40, j2)
      ELSE Ok([j2 EXCEPT !.IsForce = (prevJobs # {}) \/ @])

\* jobAlreadyStarted without the re-read status test.
jobAlreadyStartedNever(updatedJob) == FALSE

\* Line 731: another trigger already advanced the job.
jobAlreadyStarted(updatedJob) == updatedJob.Status # JOB_STATUS_REQUESTED

\* startRejected without the test of the rejection.
startRejectedOnlyAlreadyStarted(err, bbError) == isBuildAlreadyStartedError(err)

\* Line 806: the start was answered "already started" or was rejected.
startRejected(err, bbError) == isBuildAlreadyStartedError(err) \/ bbError # Nil

\* startFailed with the error of the request ignored.
startFailedNever(err) == FALSE

\* Line 822: the start request failed for another reason.
startFailed(err) == err # Nil

\* Lines 807-816.
startCancelReason(err, bbError) ==
  IF isBuildAlreadyStartedError(err)
    THEN Msg("StartBuild has already been called for this Job, but the Job was not correctly updated and cannot continue.", "", 107)
    ELSE Msg("Buildbucket rejected Start with: %s", bbError, 50)

\* mishapJob with the message stored as it is.
mishapJobNotTruncated(j, err) ==
  [j EXCEPT !.Status = JOB_STATUS_MISHAP,
            !.StatusDetails = Msg("Failed to start Job: %s", err.text, 21 + err.len)]

\* Lines 797-800: the job of a failed helper.
mishapJob(j, err) ==
  [j EXCEPT !.Status = JOB_STATUS_MISHAP,
            !.StatusDetails = Truncate(Msg("Failed to start Job: %s", err.text, 21 + err.len), 1024)]

\* startedJob with the returned token dropped.
startedJobNoToken(j, bbToken) == j

\* Lines 824-828: the job of a start the service accepted.
startedJob(j, bbToken) == IF bbToken # "" THEN [j EXCEPT !.BuildbucketToken = bbToken] ELSE j

\* startJob(job), lines 721-838, for a job snapshot handed over by the loop:
\* the possible outcomes [ret, panic, db, jCache, jobsCh, bb, calls, helper].
\* panic: lines 818 and 820 read bbError.Message, a nil pointer dereference
\* when the service answered with an error and no *LegacyApiErrorMessage.
\* helper: what startJobHelper returned, "ok" or the error's message; Nil
\* when startJob returned before it.
startJob(d, c, ch, bbs, job) ==
  LET Out(ret, panic, d2, c2, ch2, bbs2, calls) ==
        [ret |-> ret, panic |-> panic, db |-> d2, jCache |-> c2, jobsCh |-> ch2,
         bb |-> bbs2, calls |-> calls, helper |-> Nil]
      \* lines 831-837
      Persist(j, bbs2, calls) ==
        {Out("failed to insert Job into the DB", FALSE, d, c, ch, bbs2, calls),
         Out(Nil, FALSE, PutJobs(d, One(j)), AddJobs(c, One(j)),
             ModifiedJobsCh(ch, One(j)), bbs2, calls)}
      \* lines 802-828
      Notified(j) ==
        UNION {
          IF startRejected(s.err, s.bbError) THEN
            {IF s.bbError = Nil
               THEN Out("panic: nil pointer dereference", TRUE,
                        lc.db, lc.jCache, lc.jobsCh, s.bb, s.calls)
               ELSE Out(IF lc.err # Nil
                          THEN "failed to start job and failed to cancel job"
                          ELSE "failed to start job", FALSE,
                        lc.db, lc.jCache, lc.jobsCh, s.bb, s.calls)
             : lc \in localCancelJobs(d, c, ch, One(j),
                                      [i \in {j.Id} |-> startCancelReason(s.err, s.bbError)])}
          ELSE IF startFailed(s.err) THEN
            {Out("failed to send job-started notification", FALSE, d, c, ch, s.bb, s.calls)}
          ELSE Persist(startedJob(j, s.token), s.bb, s.calls)
          : s \in jobStarted(bbs, j)}
  IN  \* db.GetJobById fails
      {Out("failed loading job from DB", FALSE, d, c, ch, bbs, <<>>)}
      \cup (IF jobAlreadyStarted(d[job.Id])
              THEN {Out(Nil, FALSE, d, c, ch, bbs, <<>>)}
              ELSE UNION {
                LET h == startJobHelper(c, job, in)
                IN  IF h.failed
                      THEN {[o EXCEPT !.helper = h.err.text]
                            : o \in Persist(mishapJob(h.job, h.err), bbs, <<>>)}
                      ELSE {[o EXCEPT !.helper = "ok"]
                            : o \in Notified([h.job EXCEPT !.Status = JOB_STATUS_IN_PROGRESS])}
                : in \in StartInputs})

StarterIdle == [todo |-> <<>>]

\* The jobs of a set of ids, in id order.
RECURSIVE JobSeq(_, _)
JobSeq(c, ids) ==
  IF ids = {} THEN <<>>
  ELSE LET i == CHOOSE x \in ids : \A y \in ids : x <= y
       IN  <<c[i]>> \o JobSeq(c, ids \ {i})

\* jCache.RequestedJobs
RequestedJobs(c) == JobSeq(c, {i \in DOMAIN c : c[i].Status = JOB_STATUS_REQUESTED})

\* startJobsLoop, case jobs := <-jobsCh (lines 684-693): a batch of one
\* modified job arrives.
StartJobsLoopRecv ==
  /\ ~crashed
  /\ starter.todo = <<>>
  /\ \E j \in jobsCh :
       /\ jobsCh' = jobsCh \ {j}
       /\ starter' = [starter EXCEPT !.todo = IF j.Status # JOB_STATUS_REQUESTED THEN <<>> ELSE <<j>>]
       /\ ev' = Event("startJobsLoop", j.Id, j.BuildbucketBuildId, Nil, <<>>)
  /\ UNCHANGED <<db, jCache, bb, poll, upd, notified, crashed>>
  /\ UNCHANGED life

\* startJobsLoop, case <-tickCh (lines 694-705): the periodic poll of the
\* cache for REQUESTED jobs.
StartJobsLoopTick ==
  /\ ~crashed
  /\ starter.todo = <<>>
  /\ RequestedJobs(jCache) # <<>>
  /\ starter' = [starter EXCEPT !.todo = RequestedJobs(jCache)]
  /\ ev' = Event("startJobsLoop", 0, 0, Nil, <<>>)
  /\ UNCHANGED <<db, jCache, bb, jobsCh, poll, upd, notified, crashed>>
  /\ UNCHANGED life

\* One startJob call of the loop.
StartJob ==
  /\ ~crashed
  /\ starter.todo # <<>>
  /\ LET job == Head(starter.todo)
     IN  \E o \in startJob(db, jCache, jobsCh, bb, job) :
           /\ db' = o.db
           /\ jCache' = o.jCache
           /\ jobsCh' = o.jobsCh
           /\ bb' = o.bb
           /\ notified' = Notify(notified, o.calls)
           /\ crashed' = o.panic
           /\ starter' = [starter EXCEPT !.todo = Tail(@)]
           /\ ev' = [op |-> "startJob", job |-> job.Id, build |-> job.BuildbucketBuildId,
                     ret |-> o.ret, calls |-> o.calls, helper |-> o.helper]
  /\ UNCHANGED <<poll, upd>>
  /\ UNCHANGED life

\* ------------------------------------------- updateJobs: completion reconciler
\* isActive without the test of the lease key and the token.
isActiveAnyLease(job) == job.Status # JOB_STATUS_REQUESTED

\* isActive without the test of the status.
isActiveAnyStatus(job) == job.BuildbucketLeaseKey # 0 \/ job.BuildbucketToken # ""

\* Line 218.
isActive(job) ==
  /\ (job.BuildbucketLeaseKey # 0 \/ job.BuildbucketToken # "")
  /\ job.Status # JOB_STATUS_REQUESTED

\* getActiveTryJobs, lines 215-222, on the refreshed cache.
getActiveTryJobs(c) == [i \in {k \in DOMAIN c : isActive(c[k])} |-> c[i]]

\* sendPubSub: the publish succeeds or fails.
sendPubSub(j) ==
  {[err |-> e, calls |-> <<Call("Publish", j.BuildbucketBuildId, e)>>] : e \in {Nil, ErrTransport}}

\* bb2.UpdateBuild / bb2.CancelBuild / bb.Succeed / bb.Fail as the service
\* answers them: [resp, bb], resp being the error or the rejection reason.
RemoteUpdateBuild(bbs, b) ==
  {[resp |-> ErrTransport, bb |-> bbs]}
  \cup (IF bbs[b].Status = ENDED THEN {[resp |-> ErrAlreadyFinished, bb |-> bbs]}
        ELSE {[resp |-> Nil, bb |-> [bbs EXCEPT ![b].Status = ENDED]]})
RemoteCancelBuild(bbs, b) ==
  {[resp |-> ErrTransport, bb |-> bbs], [resp |-> Nil, bb |-> [bbs EXCEPT ![b].Status = ENDED]]}
RemoteFinishV1(bbs, b) ==
  {[resp |-> ErrTransport, bb |-> bbs],
   [resp |-> BUILDBUCKET_API_ERROR_REASON_LEASE_EXPIRED, bb |-> bbs]}
  \cup (IF bbs[b].Status = ENDED
          THEN {[resp |-> BUILDBUCKET_API_ERROR_REASON_COMPLETED, bb |-> bbs]}
          ELSE {[resp |-> Nil, bb |-> [bbs EXCEPT ![b].Status = ENDED]]})

\* updateBuild, lines 972-978.
updateBuild(bbs, j) ==
  UNION {
    IF u.resp # Nil
      THEN {[err |-> u.resp, bb |-> u.bb,
             calls |-> <<Call("UpdateBuild", j.BuildbucketBuildId, u.resp)>>]}
      ELSE {[err |-> p.err, bb |-> u.bb,
             calls |-> <<Call("UpdateBuild", j.BuildbucketBuildId, Nil)>> \o p.calls]
            : p \in sendPubSub(j)}
    : u \in RemoteUpdateBuild(bbs, j.BuildbucketBuildId)}

\* cancelBuild, lines 980-987.
cancelBuild(bbs, j) ==
  UNION {
    IF u.resp # Nil
      THEN {[err |-> u.resp, bb |-> u.bb,
             calls |-> <<Call("CancelBuild", j.BuildbucketBuildId, u.resp)>>]}
      ELSE {[err |-> p.err, bb |-> u.bb,
             calls |-> <<Call("CancelBuild", j.BuildbucketBuildId, Nil)>> \o p.calls]
            : p \in sendPubSub(j)}
    : u \in RemoteCancelBuild(bbs, j.BuildbucketBuildId)}

\* Lines 928-934 and 962-968: the error of a legacy terminal call.
legacyResultErr(resp) ==
  IF resp = BUILDBUCKET_API_ERROR_REASON_COMPLETED THEN Nil ELSE resp

\* buildSucceededV1, lines 910-936.
buildSucceededV1(bbs, j) ==
  {[err |-> legacyResultErr(u.resp), bb |-> u.bb,
    calls |-> <<Call("Succeed", j.BuildbucketBuildId, u.resp)>>]
   : u \in RemoteFinishV1(bbs, j.BuildbucketBuildId)}

\* failureReason without the test of the status.
failureReasonBuild(j) == "BUILD_FAILURE"
\* Lines 948-951.
failureReason(j) == IF j.Status = JOB_STATUS_MISHAP THEN "INFRA_FAILURE" ELSE "BUILD_FAILURE"

\* bb.Fail as it is recorded: a call with the FailureReason of its request.
FailCall(b, resp, reason) ==
  [api |-> "Fail", build |-> b, resp |-> resp, ok |-> resp = Nil, reason |-> reason]

\* buildFailed, lines 939-970.
buildFailed(bbs, j) ==
  {[err |-> legacyResultErr(u.resp), bb |-> u.bb,
    calls |-> <<FailCall(j.BuildbucketBuildId, u.resp, failureReason(j))>>]
   : u \in RemoteFinishV1(bbs, j.BuildbucketBuildId)}

\* updateBuildErr with the "already finished" answer kept as an error.
updateBuildErrKept(err) == err

\* Lines 1002-1014: an update of an already finished build is no error.
updateBuildErr(err) == IF isBuildAlreadyFinishedError(err) THEN Nil ELSE err

\* jobFinished, lines 990-1021: [err, bb, calls].
jobFinished(bbs, j) ==
  IF ~Done(j)
    THEN {[err |-> "JobFinished called for unfinished Job!", bb |-> bbs, calls |-> <<>>]}
  ELSE IF isBBv2(j)
    THEN IF j.Status = JOB_STATUS_CANCELED
           THEN cancelBuild(bbs, j)
           ELSE {[u EXCEPT !.err = updateBuildErr(u.err)] : u \in updateBuild(bbs, j)}
  ELSE IF j.Status = JOB_STATUS_SUCCESS THEN buildSucceededV1(bbs, j)
  ELSE buildFailed(bbs, j)

\* clearedJob with the token left in place.
clearedJobKeepsToken(j) == [j EXCEPT !.BuildbucketLeaseKey = 0]

\* Lines 271-272: the lease key and the token of a notified job are emptied.
clearedJob(j) == [j EXCEPT !.BuildbucketLeaseKey = 0, !.BuildbucketToken = ""]

\* finishedLoop that returns at the first notification that fails.
RECURSIVE finishedLoopAbort(_, _, _)
finishedLoopAbort(bbs, jobs, ids) ==
  IF ids = {} THEN {[bb |-> bbs, calls |-> <<>>, insert |-> <<>>, errs |-> {}]}
  ELSE
    LET i == CHOOSE x \in ids : \A y \in ids : x <= y
    IN  UNION {
          IF f.err # Nil
            THEN {[bb |-> f.bb, calls |-> f.calls, insert |-> <<>>, errs |-> {i}]}
            ELSE {[bb |-> r.bb,
                   calls |-> f.calls \o r.calls,
                   insert |-> IF r.errs = {} THEN PutJobs(r.insert, One(clearedJob(jobs[i])))
                              ELSE <<>>,
                   errs |-> r.errs]
                  : r \in finishedLoopAbort(f.bb, jobs, ids \ {i})}
          : f \in jobFinished(bbs, jobs[i])}

\* Lines 267-275 for the finished jobs with ids `ids`, one after the other:
\* the possible [bb, calls, insert, errs].  insert: id -> cleared job; errs:
\* the ids of the jobs whose notification failed.
RECURSIVE finishedLoop(_, _, _)
finishedLoop(bbs, jobs, ids) ==
  IF ids = {} THEN {[bb |-> bbs, calls |-> <<>>, insert |-> <<>>, errs |-> {}]}
  ELSE
    LET i == CHOOSE x \in ids : \A y \in ids : x <= y
    IN  UNION {
          {[bb |-> r.bb,
            calls |-> f.calls \o r.calls,
            insert |-> IF f.err = Nil THEN PutJobs(r.insert, One(clearedJob(jobs[i])))
                       ELSE r.insert,
            errs |-> IF f.err = Nil THEN r.errs ELSE r.errs \cup {i}]
           : r \in finishedLoop(f.bb, jobs, ids \ {i})}
          : f \in jobFinished(bbs, jobs[i])}

\* ------------------------------------------ updateJobs: lease and heartbeats
LEASE_BATCH_SIZE == 200

Range(f) == {f[x] : x \in DOMAIN f}
Min(a, b) == IF a < b THEN a ELSE b

\* sort.Sort(heartbeatJobSlice(jobs)): the ids of the jobs by build id.
RECURSIVE SortedIds(_, _)
SortedIds(jobs, ids) ==
  IF ids = {} THEN <<>>
  ELSE LET i == CHOOSE x \in ids : \A y \in ids :
                    \/ jobs[x].BuildbucketBuildId < jobs[y].BuildbucketBuildId
                    \/ jobs[x].BuildbucketBuildId = jobs[y].BuildbucketBuildId /\ x <= y
       IN  <<i>> \o SortedIds(jobs, ids \ {i})

\* The result lists the service may return for a batch, one result per job:
\* Nil (renewed) or the reason of the rejection.
HeartbeatResults(bbs, jobs, ids) ==
  {r \in [ids -> {Nil, BUILDBUCKET_API_ERROR_REASON_COMPLETED,
                  BUILDBUCKET_API_ERROR_REASON_LEASE_EXPIRED, REASON_OTHER}] :
     \A i \in ids : (r[i] = BUILDBUCKET_API_ERROR_REASON_COMPLETED)
                       => bbs[jobs[i].BuildbucketBuildId].Status = ENDED}

\* retryLeaseJobs with every job of the batch selected once one lease expired.
retryLeaseJobsAll(batch, res) ==
  IF \E k \in DOMAIN batch : res[batch[k]] = BUILDBUCKET_API_ERROR_REASON_LEASE_EXPIRED
    THEN batch ELSE <<>>
\* retryLeaseJobs with every job entered a second time.
retryLeaseJobsTwice(batch, res) ==
  SelectSeq(batch, LAMBDA i : res[i] = BUILDBUCKET_API_ERROR_REASON_LEASE_EXPIRED)
    \o SelectSeq(batch, LAMBDA i : res[i] = BUILDBUCKET_API_ERROR_REASON_LEASE_EXPIRED)
\* Lines 352-366: the jobs whose result is "lease expired", in batch order.
retryLeaseJobs(batch, res) ==
  SelectSeq(batch, LAMBDA i : res[i] = BUILDBUCKET_API_ERROR_REASON_LEASE_EXPIRED)

\* Line 373: the re-lease is taken to have failed.
reLeaseFailed(err, bbError) == err # Nil /\ bbError # Nil

\* Lines 371-388 for the jobs to re-lease, in order: the possible
\* [bb, calls, jobs, cancel, cancelBuilds]; jobs is the tick's copy of the
\* jobs, cancel maps the ids to cancel to their reasons.
RECURSIVE reLease(_, _, _)
reLease(bbs, jobs, retry) ==
  IF retry = <<>>
    THEN {[bb |-> bbs, calls |-> <<>>, jobs |-> jobs, cancel |-> <<>>,
           cancelBuilds |-> <<>>]}
    ELSE
      LET i == Head(retry)
          b == jobs[i].BuildbucketBuildId
      IN  UNION {
            {IF reLeaseFailed(l.err, l.bbError)
               THEN [bb |-> r.bb, calls |-> l.calls \o r.calls, jobs |-> r.jobs,
                     cancel |-> [k \in DOMAIN r.cancel \cup {i} |->
                                   IF k = i
                                     THEN Msg("Buildbucket rejected heartbeat and failed to re-lease with: %s",
                                              IF l.err # Nil THEN l.err ELSE l.bbError, 80)
                                     ELSE r.cancel[k]],
                     cancelBuilds |-> <<b>> \o r.cancelBuilds]
               ELSE [bb |-> r.bb, calls |-> l.calls \o r.calls,
                     jobs |-> [r.jobs EXCEPT ![i].BuildbucketLeaseKey = l.leaseKey],
                     cancel |-> r.cancel, cancelBuilds |-> r.cancelBuilds]
             : r \in reLease(l.bb, jobs, Tail(retry))}
            : l \in tryLeaseV1Build(bbs, b)}

\* Lines 396-403: the builds of cancelBuilds are cancelled one after the other.
RECURSIVE cancelBuildsLoop(_, _)
cancelBuildsLoop(bbs, builds) ==
  IF builds = <<>> THEN {[bb |-> bbs, calls |-> <<>>, errs |-> {}]}
  ELSE UNION {
         {[bb |-> r.bb, calls |-> c.calls \o r.calls,
           errs |-> IF c.err # Nil THEN r.errs \cup {"failed to cancel build"} ELSE r.errs]
          : r \in cancelBuildsLoop(c.bb, Tail(builds))}
         : c \in remoteCancelV1Build(bbs, Head(builds))}

\* The heartbeat request of a batch, lines 328-335.
Heartbeats(jobs, batch) ==
  [k \in DOMAIN batch |-> [BuildId |-> jobs[batch[k]].BuildbucketBuildId,
                           LeaseKey |-> jobs[batch[k]].BuildbucketLeaseKey,
                           LeaseExpirationTs |-> Now + 1]]

\* send(batch), lines 327-404, for the result lists `results` the service may
\* answer with: the possible [errs, db, jCache, jobsCh, bb, calls, jobs].
sendResults(d, c, ch, bbs, jobs, batch, results) ==
  LET ids == Range(batch)
      \* the request and resp.Results, in the order of the batch
      hb(resp, res) == [api |-> "HeartbeatBatch", build |-> 0, resp |-> resp, ok |-> resp = Nil,
                        heartbeats |-> Heartbeats(jobs, batch),
                        results |-> [k \in DOMAIN res |-> res[k]]]
      Out(errs, d2, c2, ch2, bbs2, calls, jobs2) ==
        [errs |-> errs, db |-> d2, jCache |-> c2, jobsCh |-> ch2, bb |-> bbs2,
         calls |-> calls, jobs |-> jobs2]
      Handle(res) ==
        LET retry == retryLeaseJobs(batch, res)
            rejected == {i \in ids : res[i] \notin {Nil, BUILDBUCKET_API_ERROR_REASON_COMPLETED,
                                                    BUILDBUCKET_API_ERROR_REASON_LEASE_EXPIRED}}
        IN  UNION {
              LET cancelIds == rejected \cup DOMAIN rl.cancel
                  cancelJobs == [i \in cancelIds |-> rl.jobs[i]]
                  reasons == [i \in cancelIds |->
                                IF i \in rejected
                                  THEN Msg("Buildbucket rejected heartbeat with: %s", res[i], 60)
                                  ELSE rl.cancel[i]]
                  locals == IF cancelIds = {}
                              THEN {[err |-> Nil, db |-> d, jCache |-> c, jobsCh |-> ch]}
                              ELSE localCancelJobs(d, c, ch, cancelJobs, reasons)
              IN  UNION {
                    {Out((IF lc.err # Nil THEN {lc.err} ELSE {}) \cup cb.errs,
                         lc.db, lc.jCache, lc.jobsCh, cb.bb,
                         <<hb(Nil, [k \in DOMAIN batch |-> res[batch[k]]])>> \o rl.calls \o cb.calls,
                         [i \in DOMAIN rl.jobs |->
                            IF i \in cancelIds
                              THEN [rl.jobs[i] EXCEPT !.BuildbucketLeaseKey = 0,
                                                      !.Status = JOB_STATUS_CANCELED,
                                                      !.StatusDetails = reasons[i],
                                                      !.Finished = Now]
                              ELSE rl.jobs[i]])
                     : cb \in cancelBuildsLoop(rl.bb, rl.cancelBuilds)}
                    : lc \in locals}
              : rl \in reLease(bbs, jobs, retry)}
  IN  {Out({"failed to send heartbeat request"}, d, c, ch, bbs, <<hb(ErrTransport, <<>>)>>, jobs),
       Out({"Heartbeat result has incorrect number of jobs"}, d, c, ch, bbs,
           <<hb("wrong length", <<>>)>>, jobs)}
      \cup UNION {Handle(res) : res \in results}

\* send(batch) with every result list the service may answer with.
send(d, c, ch, bbs, jobs, batch) ==
  sendResults(d, c, ch, bbs, jobs, batch, HeartbeatResults(bbs, jobs, Range(batch)))

\* batchLen without the cap: all the jobs left go into one request.
batchLenAll(rest) == Len(rest)
\* Lines 408-411: the length of the next batch.
batchLen(rest) == Min(LEASE_BATCH_SIZE, Len(rest))

\* moreBatches that gives up once a batch has recorded an error.
moreBatchesUntilError(rest, errs) == rest # <<>> /\ errs = {}
\* Line 407: the loop goes on as long as jobs are left, whatever errs holds.
moreBatches(rest, errs) == rest # <<>>

\* sendHeartbeats, lines 406-414, for the sorted ids still to send and the
\* errors recorded so far.
RECURSIVE sendBatches(_, _, _, _, _, _, _)
sendBatches(d, c, ch, bbs, jobs, sorted, errs) ==
  IF ~moreBatches(sorted, errs)
    THEN {[errs |-> errs, db |-> d, jCache |-> c, jobsCh |-> ch, bb |-> bbs,
           calls |-> <<>>, jobs |-> jobs]}
    ELSE
      LET n == batchLen(sorted)
      IN  UNION {
            {[r EXCEPT !.calls = s.calls \o @]
             : r \in sendBatches(s.db, s.jCache, s.jobsCh, s.bb, s.jobs,
                                 SubSeq(sorted, n + 1, Len(sorted)), errs \cup s.errs)}
            : s \in send(d, c, ch, bbs, jobs, SubSeq(sorted, 1, n))}

\* sendHeartbeats, lines 315-420.
sendHeartbeats(d, c, ch, bbs, jobs) ==
  sendBatches(d, c, ch, bbs, jobs, SortedIds(jobs, DOMAIN jobs), {})

\* sendPubsubUpdates, lines 450-459: one publish per job, each may fail.
sendPubsubUpdates(jobs) ==
  {[errs |-> {i \in DOMAIN jobs : r[i] # Nil},
    calls |-> [k \in 1..Len(SortedIds(jobs, DOMAIN jobs)) |->
                 Call("Publish", jobs[SortedIds(jobs, DOMAIN jobs)[k]].BuildbucketBuildId,
                      r[SortedIds(jobs, DOMAIN jobs)[k]])]]
   : r \in [DOMAIN jobs -> {Nil, ErrTransport}]}

\* Lines 233-245: the three sets of an update tick.
finishedOf(jobs) == {i \in DOMAIN jobs : Done(jobs[i])}
unfinishedV2Of(jobs) == {i \in DOMAIN jobs : ~Done(jobs[i]) /\ isBBv2(jobs[i])}
\* unfinishedV1Of without the test of Done.
unfinishedV1OfAnyStatus(jobs) == {i \in DOMAIN jobs : ~isBBv2(jobs[i])}
unfinishedV1Of(jobs) == {i \in DOMAIN jobs : ~Done(jobs[i]) /\ ~isBBv2(jobs[i])}
Restrict(f, ids) == [i \in ids |-> f[i]]

\* The position of the tick.  answered and due keep, for the properties, the
\* jobs whose heartbeat was answered "already completed" in the tick under
\* way and in the tick before it.
UpdIdle ==
  [pc |-> "idle", jobs |-> <<>>, fin |-> TRUE, hb |-> TRUE, ps |-> TRUE, errs |-> {},
   answered |-> {}, due |-> {}]

\* The jobs whose entry of a heartbeat request came back with the reason
\* BUILD_IS_COMPLETED (lines 352-358).
AnsweredCompleted(jobs, calls) ==
  {i \in DOMAIN jobs :
     \E k \in {n \in DOMAIN calls : calls[n].api = "HeartbeatBatch"} :
       \E n \in DOMAIN calls[k].results :
         /\ calls[k].heartbeats[n].BuildId = jobs[i].BuildbucketBuildId
         /\ calls[k].results[n] = BUILDBUCKET_API_ERROR_REASON_COMPLETED}

\* The value updateJobs returns, lines 289-292.
UpdateResult(errs) == IF errs # {} THEN "Failed to update jobs" ELSE Nil

\* updateJobs, lines 228-261: getActiveTryJobs refreshes the cache (or fails and
\* ends the tick), the active jobs are split and the two senders are started.
UpdateBegin ==
  /\ ~crashed
  /\ upd.pc = "idle"
  /\ \/ /\ ev' = [op |-> "updateJobs", ret |-> ErrTransport, errs |-> {}, calls |-> <<>>,
                  due |-> {}]
        /\ UNCHANGED <<jCache, upd>>
     \/ LET jobs == getActiveTryJobs(db)
        IN  /\ jCache' = db
            /\ jobs # <<>>
            /\ upd' = [pc |-> "run", jobs |-> jobs,
                       fin |-> finishedOf(jobs) = {},
                       hb |-> unfinishedV1Of(jobs) = {},
                       ps |-> unfinishedV2Of(jobs) = {},
                       errs |-> {},
                       answered |-> {}, due |-> upd.due]
            /\ ev' = [op |-> "getActiveTryJobs", ret |-> Nil, jobs |-> jobs, calls |-> <<>>]
  /\ UNCHANGED <<db, bb, jobsCh, poll, starter, notified, crashed>>
  /\ UNCHANGED life

\* Lines 263-279: the finished jobs are notified, and those whose notification
\* went through are written to the database and put into the cache with their
\* lease key and token emptied.
UpdateFinished ==
  /\ ~crashed
  /\ upd.pc = "run"
  /\ ~upd.fin
  /\ \E o \in finishedLoop(bb, upd.jobs, finishedOf(upd.jobs)) :
     \E putErr \in {Nil, ErrTransport} :
       /\ (DOMAIN o.insert = {}) => putErr = Nil
       /\ db' = IF putErr = Nil THEN PutJobs(db, o.insert) ELSE db
       /\ jobsCh' = IF putErr = Nil THEN ModifiedJobsCh(jobsCh, o.insert) ELSE jobsCh
       /\ jCache' = AddJobs(jCache, o.insert)
       /\ bb' = o.bb
       /\ notified' = Notify(notified, o.calls)
       /\ upd' = [upd EXCEPT !.fin = TRUE,
                             !.errs = @ \cup {<<i, "jobFinished">> : i \in o.errs}
                                        \cup (IF putErr # Nil THEN {<<0, "PutJobsInChunks">>} ELSE {})]
       /\ ev' = [op |-> "finished", ret |-> putErr, jobs |-> Restrict(upd.jobs, finishedOf(upd.jobs)),
                 insert |-> o.insert, errs |-> {<<i, "jobFinished">> : i \in o.errs},
                 calls |-> o.calls]
  /\ UNCHANGED <<poll, starter, crashed>>
  /\ UNCHANGED life

\* Line 253: sendHeartbeats for the unfinished legacy jobs.
UpdateHeartbeats ==
  /\ ~crashed
  /\ upd.pc = "run"
  /\ ~upd.hb
  /\ LET jobs == Restrict(upd.jobs, unfinishedV1Of(upd.jobs))
     IN  \E o \in sendHeartbeats(db, jCache, jobsCh, bb, jobs) :
           /\ db' = o.db
           /\ jCache' = o.jCache
           /\ jobsCh' = o.jobsCh
           /\ bb' = o.bb
           /\ notified' = Notify(notified, o.calls)
           /\ upd' = [upd EXCEPT !.hb = TRUE,
                                 !.errs = IF o.errs # {} THEN @ \cup {<<0, "sendHeartbeats">>} ELSE @,
                                 !.answered = AnsweredCompleted(jobs, o.calls)]
           /\ ev' = [op |-> "sendHeartbeats",
                     ret |-> IF o.errs # {} THEN "got errors sending heartbeats" ELSE Nil,
                     jobs |-> jobs, after |-> o.jobs, errs |-> {<<0, e>> : e \in o.errs},
                     calls |-> o.calls]
  /\ UNCHANGED <<poll, starter, crashed>>
  /\ UNCHANGED life

\* Line 260: sendPubsubUpdates for the unfinished async jobs.
UpdatePubsub ==
  /\ ~crashed
  /\ upd.pc = "run"
  /\ ~upd.ps
  /\ LET jobs == Restrict(upd.jobs, unfinishedV2Of(upd.jobs))
     IN  \E o \in sendPubsubUpdates(jobs) :
           /\ upd' = [upd EXCEPT !.ps = TRUE,
                                 !.errs = IF o.errs # {} THEN @ \cup {<<0, "sendPubsubUpdates">>} ELSE @]
           /\ ev' = [op |-> "sendPubsubUpdates",
                     ret |-> IF o.errs # {} THEN ErrTransport ELSE Nil,
                     jobs |-> jobs, errs |-> {<<i, ErrTransport>> : i \in o.errs}, calls |-> o.calls]
  /\ UNCHANGED <<db, jCache, bb, jobsCh, poll, starter, notified, crashed>>
  /\ UNCHANGED life

\* Lines 281-292: wg.Wait and the result of the tick.
UpdateEnd ==
  /\ ~crashed
  /\ upd.pc = "run"
  /\ upd.fin /\ upd.hb /\ upd.ps
  /\ upd' = [UpdIdle EXCEPT !.due = upd.answered]
  /\ ev' = [op |-> "updateJobs", ret |-> UpdateResult(upd.errs), errs |-> upd.errs, calls |-> <<>>,
            due |-> upd.due]
  /\ UNCHANGED <<db, jCache, bb, jobsCh, poll, starter, notified, crashed>>
  /\ UNCHANGED life

\* ------------------------------------------------------ orphan build cleanup
\* bb2.Search, lines 1026-1035: the builds that are STARTED and were created
\* before the age threshold.  The request names the bucket; the loop tests
\* the bucket of every build it gets again (line 1040).
StaleBuilds(bbs) == {b \in DOMAIN bbs : bbs[b].Status = STARTED /\ bbs[b].Old}

\* The builds of bb2.Search are a snapshot: the service may have ended build b
\* by the time the pass gets to it.
EndedSince(bbs, b) == [bbs EXCEPT ![b].Status = ENDED]

\* cleanupJob that cancels the build after every failed update.
cleanupJobCancelAlways(bbs, job) ==
  IF job.BuildbucketToken = ""
    THEN cancelBuild(bbs, job)
    ELSE UNION {
           IF u.err = Nil
             THEN {u}
             ELSE {[c EXCEPT !.calls = u.calls \o @] : c \in cancelBuild(u.bb, job)}
           : u \in updateBuild(bbs, job)}

\* cleanupJob without the test of the update token: UpdateBuild is always
\* tried first.
cleanupJobUpdateFirst(bbs, job) ==
  UNION {
    IF u.err = Nil \/ isBuildAlreadyFinishedError(u.err)
      THEN {[u EXCEPT !.err = Nil]}
      ELSE {[c EXCEPT !.calls = u.calls \o @] : c \in cancelBuild(u.bb, job)}
    : u \in updateBuild(bbs, job)}

\* Lines 1051-1073 for one build with a finished job: [err, bb, calls].
cleanupJob(bbs, job) ==
  IF job.BuildbucketToken = ""
    THEN cancelBuild(bbs, job)
    ELSE UNION {
           IF u.err = Nil \/ isBuildAlreadyFinishedError(u.err)
             THEN {[u EXCEPT !.err = Nil]}
             ELSE {[c EXCEPT !.calls = u.calls \o @] : c \in cancelBuild(u.bb, job)}
           : u \in updateBuild(bbs, job)}

\* inBucket with every build taken as one of the bucket.
inBucketAlways(bbs, b) == TRUE

\* Line 1040: the build is one of the integrator's bucket.
inBucket(bbs, b) == bbs[b].Bucket = buildbucketBucket

\* Lines 1039-1075 for the builds still to look at, in order:
\* [ret, bb, calls, found, reached]; found holds the builds whose job the pass
\* got from findJobForBuild, reached the builds the loop got to.
RECURSIVE cleanupLoop(_, _, _)
cleanupLoop(d, bbs, builds) ==
  IF builds = {} THEN {[ret |-> Nil, bb |-> bbs, calls |-> <<>>, found |-> {}, reached |-> {}]}
  ELSE
    LET b == CHOOSE x \in builds : \A y \in builds : x <= y
        found == JobsForBuild(d, b)
        job == d[CHOOSE i \in found : \A k \in found : i <= k]
        rest(bbs2, calls, fnd) ==
          {[r EXCEPT !.calls = calls \o @, !.found = fnd \cup @, !.reached = {b} \cup @]
           : r \in cleanupLoop(d, bbs2, builds \ {b})}
    IN  IF ~inBucket(bbs, b) THEN rest(bbs, <<>>, {})
        ELSE
        \* db.SearchJobs fails
        {[ret |-> "failed searching for existing Jobs", bb |-> bbs, calls |-> <<>>,
          found |-> {}, reached |-> {b}]}
        \cup (IF found = {} THEN rest(bbs, <<>>, {})
              ELSE IF ~Done(job) THEN rest(bbs, <<>>, {b})
              ELSE UNION {
                     IF c.err # Nil
                       THEN {[ret |-> "failed to cancel build", bb |-> c.bb, calls |-> c.calls,
                              found |-> {b}, reached |-> {b}]}
                       ELSE rest(c.bb, c.calls, {b})
                     : c \in cleanupJob(bbs, job) \cup cleanupJob(EndedSince(bbs, b), job)})

\* buildbucketCleanup, lines 1025-1076: [ret, bb, calls, found, reached].
buildbucketCleanup(d, bbs) ==
  {[ret |-> ErrTransport, bb |-> bbs, calls |-> <<Call("Search", 0, ErrTransport)>>,
    found |-> {}, reached |-> {}]}
  \cup {[r EXCEPT !.calls = <<Call("Search", 0, Nil)>> \o @]
        : r \in cleanupLoop(d, bbs, StaleBuilds(bbs))}

\* One pass of the cleanup loop.
Cleanup ==
  /\ ~crashed
  /\ \E o \in buildbucketCleanup(db, bb) :
       /\ bb' = o.bb
       /\ notified' = Notify(notified, o.calls)
       /\ ev' = [op |-> "buildbucketCleanup", ret |-> o.ret, builds |-> StaleBuilds(bb),
                 found |-> o.found, reached |-> o.reached, calls |-> o.calls]
  /\ UNCHANGED <<db, jCache, jobsCh, poll, starter, upd, crashed>>
  /\ UNCHANGED life

\* ------------------------------------------------------------- environment
\* A started build grows older than CLEANUP_AGE_THRESHOLD.
Age(b) ==
  /\ bb[b].Status = STARTED
  /\ ~bb[b].Old
  /\ bb' = [bb EXCEPT ![b].Old = TRUE]
  /\ ev' = Event("Age", 0, b, Nil, <<>>)
  /\ UNCHANGED <<db, jCache, jobsCh, poll, starter, upd, notified, crashed>>
  /\ UNCHANGED life

\* The task engine finishes an IN_PROGRESS job.
EngineFinish(i, status) ==
  /\ ~crashed
  /\ i \in DOMAIN db
  /\ db[i].Status = JOB_STATUS_IN_PROGRESS
  /\ db' = [db EXCEPT ![i].Status = status, ![i].Finished = Now]
  /\ ev' = Event("engine", i, db[i].BuildbucketBuildId, Nil, <<>>)
  /\ UNCHANGED <<jCache, bb, jobsCh, poll, starter, upd, notified, crashed>>
  /\ UNCHANGED life

\* The job the task backend creates for a build of the async protocol.
NewJobV2(id, buildId, patch) ==
  [Id |-> id,
   Name |-> "my-builder",
   BuildbucketBuildId |-> buildId,
   BuildbucketLeaseKey |-> 0,
   BuildbucketToken |-> "tok0",
   BuildbucketPubSubTopic |-> "projects/skia/topics/buildbucket",
   Repo |-> "skia.git",
   Revision |-> "main",
   Patch |-> patch,
   Status |-> JOB_STATUS_REQUESTED,
   StatusDetails |-> NoDetails,
   Finished |-> 0,
   Dependencies |-> {},
   IsForce |-> FALSE]

NoPatch == [Server |-> "", Issue |-> "", PatchRepo |-> "", Patchset |-> ""]

\* The task backend inserts a REQUESTED job for a build of the async protocol.
RunTask(b, patch) ==
  /\ ~crashed
  /\ JobsForBuild(db, b) = {}
  /\ FreeIds(db) # {}
  /\ bb[b].Status = SCHEDULED
  /\ bb[b].LeaseKey = 0
  /\ LET js == One(NewJobV2(NewId(db), b, patch))
     IN  /\ db' = PutJobs(db, js)
         /\ jobsCh' = ModifiedJobsCh(jobsCh, js)
  /\ ev' = Event("RunTask", NewId(db), b, Nil, <<>>)
  /\ UNCHANGED <<jCache, bb, poll, starter, upd, notified, crashed>>
  /\ UNCHANGED life

\* The remote service ends a build on its own (it was cancelled there).
RemoteEnd(b) ==
  /\ bb[b].Status # ENDED
  /\ bb' = [bb EXCEPT ![b].Status = ENDED]
  /\ ev' = Event("RemoteEnd", 0, b, Nil, <<>>)
  /\ UNCHANGED <<db, jCache, jobsCh, poll, starter, upd, notified, crashed>>
  /\ UNCHANGED life

\* ------------------------------------------------------------ specification
Init ==
  /\ db = <<>>
  /\ jCache = <<>>
  /\ bb = [b \in Builds |-> [Status |-> SCHEDULED, LeaseKey |-> 0, Old |-> FALSE,
                             Bucket |-> buildbucketBucket]]
  /\ jobsCh = {}
  /\ poll = PollIdle
  /\ starter = StarterIdle
  /\ upd = UpdIdle
  /\ notified = {}
  /\ crashed = FALSE
  /\ ev = NoEvent
  /\ life = LifeStart

Next ==
  \/ PollBegin
  \/ PollPeek
  \/ \E b \in Builds : PollInsert(b)
  \/ PollJoin
  \/ StartJobsLoopRecv
  \/ StartJobsLoopTick
  \/ StartJob
  \/ UpdateBegin
  \/ UpdateFinished
  \/ UpdateHeartbeats
  \/ UpdatePubsub
  \/ UpdateEnd
  \/ \E i \in JobIds, st \in {JOB_STATUS_SUCCESS, JOB_STATUS_FAILURE, JOB_STATUS_CANCELED} :
       EngineFinish(i, st)
  \/ \E b \in Builds, p \in {NoPatch, Patch("1234", "skia.git")} : RunTask(b, p)
  \/ \E b \in Builds : RemoteEnd(b)
  \/ Cleanup
  \/ \E b \in Builds : Age(b)

Spec == Init /\ [][Next]_vars

\* The loops that send terminal notifications keep running (Start, lines
\* 164-207, runs each of them on a ticker until the context ends), and the
\* database and the remote service do not fail them for ever.
Fairness ==
  /\ WF_vars(UpdateBegin \/ UpdateFinished \/ UpdateHeartbeats \/ UpdatePubsub \/ UpdateEnd)
  /\ WF_vars(Cleanup)
  /\ SF_vars(UpdateBegin /\ upd'.pc = "run")
  /\ SF_vars(UpdateFinished /\ ev'.errs = {} /\ ev'.ret = Nil)
  /\ SF_vars(Cleanup /\ ev'.ret = Nil)

FairSpec == Init /\ [][Next]_vars /\ Fairness

\* The update tick on its own, over a database of BatchJobs jobs, one per
\* build, each started or still REQUESTED: legacy jobs hold lease key 1, async
\* jobs the update token.
StartedJobV1(i) ==
  [NewJobV1(i, GerritChange("skia", "1234"))
   EXCEPT !.Id = i, !.BuildbucketLeaseKey = 1, !.Revision = "abc123",
          !.Dependencies = GetTaskSpecDAG("my-builder"), !.Status = JOB_STATUS_IN_PROGRESS]
StartedJobV2(i) ==
  [NewJobV2(i, i, Patch("1234", "skia.git"))
   EXCEPT !.BuildbucketToken = "tok1", !.Revision = "abc123",
          !.Dependencies = GetTaskSpecDAG("my-builder"), !.Status = JOB_STATUS_IN_PROGRESS]

\* The job intake leased for build i, and the job the task backend made for
\* it, before the starter got to them.
LeasedJobV1(i) ==
  [NewJobV1(i, GerritChange("skia", "1234")) EXCEPT !.Id = i, !.BuildbucketLeaseKey = 1]
RequestedJobV2(i) == NewJobV2(i, i, Patch("1234", "skia.git"))

InitUpdate ==
  /\ db \in {d \in [1..BatchJobs -> {StartedJobV1(i) : i \in 1..BatchJobs}
                                      \cup {StartedJobV2(i) : i \in 1..BatchJobs}
                                      \cup {LeasedJobV1(i) : i \in 1..BatchJobs}
                                      \cup {RequestedJobV2(i) : i \in 1..BatchJobs}] :
               \A i \in 1..BatchJobs : d[i].Id = i}
  /\ jCache = db
  /\ bb = [b \in 1..BatchJobs |->
             [Status |-> IF db[b].Status = JOB_STATUS_REQUESTED THEN SCHEDULED ELSE STARTED,
              LeaseKey |-> IF isBBv2(db[b]) THEN 0 ELSE 1, Old |-> FALSE,
              Bucket |-> buildbucketBucket]]
  /\ jobsCh = {}
  /\ poll = PollIdle
  /\ starter = StarterIdle
  /\ upd = UpdIdle
  /\ notified = {}
  /\ crashed = FALSE
  /\ ev = NoEvent
  /\ life = LifeStart

NextUpdate ==
  \/ UpdateBegin
  \/ UpdateFinished
  \/ UpdateHeartbeats
  \/ UpdatePubsub
  \/ UpdateEnd
  \/ \E i \in 1..BatchJobs, st \in {JOB_STATUS_SUCCESS, JOB_STATUS_FAILURE, JOB_STATUS_CANCELED} :
       EngineFinish(i, st)
  \/ \E b \in 1..BatchJobs : RemoteEnd(b)

SpecUpdate == InitUpdate /\ [][NextUpdate]_vars

\* Intake on its own, with the goroutines of Poll (lines 863-870) taken step
\* by step: Poll is not guarded by a lock, so the work of a second call for a
\* build may run between the findJobForBuild of the first (lines 567-574) and
\* the rest of its insertNewJobV1 (lines 576-667).  poll maps each call to its
\* position; searched holds the builds whose findJobForBuild returned no job
\* and whose insertNewJobV1 has not got further yet.
Passes == 1..NumPasses
IntakeIds == 1..IntakeJobs
PassIdle == [pc |-> "idle", todo |-> {}, searched |-> {}, errs |-> {}]

\* Lines 841-843 of call p.
PassBegin(p) ==
  /\ poll[p].pc = "idle"
  /\ \/ /\ jCache' = db
        /\ poll' = [poll EXCEPT ![p].pc = "peek"]
        /\ ev' = Event("PollBegin", 0, 0, Nil, <<>>)
     \/ /\ ev' = [op |-> "Poll", ret |-> "failed to update job cache", errs |-> {}, calls |-> <<>>]
        /\ UNCHANGED <<jCache, poll>>
  /\ UNCHANGED <<db, bb, jobsCh, starter, upd, notified, crashed>>
  /\ UNCHANGED life

\* Lines 851-871 of call p: bb.Peek fails, or returns a page of builds, each
\* of which gets a goroutine.
PassPeek(p) ==
  /\ poll[p].pc = "peek"
  /\ \/ \E e \in {ErrTransport, REASON_OTHER} :
          /\ poll' = [poll EXCEPT ![p] = PassIdle]
          /\ ev' = PollEvent(poll[p].errs \cup {<<0, e>>}, <<Call("Peek", 0, e)>>)
     \/ \E page \in SUBSET Builds :
          /\ poll' = [poll EXCEPT ![p].pc = "page", ![p].todo = page]
          /\ ev' = Event("Peek", 0, 0, Nil, <<Call("Peek", 0, Nil)>>)
  /\ UNCHANGED <<db, jCache, bb, jobsCh, starter, upd, notified, crashed>>
  /\ UNCHANGED life

\* Lines 567-574 in the goroutine of build b of call p: findJobForBuild
\* fails, finds a job (the build is ignored), or finds none.
PassFind(p, b) ==
  /\ poll[p].pc = "page"
  /\ b \in poll[p].todo
  /\ \/ /\ poll' = [poll EXCEPT ![p].todo = @ \ {b}, ![p].errs = @ \cup {<<b, ErrTransport>>}]
        /\ ev' = InsertEvent(0, b, ErrTransport, <<>>, NoInput)
     \/ /\ JobsForBuild(db, b) # {}
        /\ poll' = [poll EXCEPT ![p].todo = @ \ {b}]
        /\ ev' = InsertEvent(0, b, Nil, <<>>, NoInput)
     \/ /\ JobsForBuild(db, b) = {}
        /\ poll' = [poll EXCEPT ![p].todo = @ \ {b}, ![p].searched = @ \cup {b}]
        /\ ev' = Event("findJobForBuild", 0, b, Nil, <<>>)
  /\ UNCHANGED <<db, jCache, bb, jobsCh, starter, upd, notified, crashed>>
  /\ UNCHANGED life

\* Lines 576-667 in the goroutine of build b of call p.
PassInsert(p, b) ==
  /\ poll[p].pc = "page"
  /\ b \in poll[p].searched
  /\ \E o \in insertNewJobV1(bb, b, IntakeIds \subseteq DOMAIN db) :
       LET id == CHOOSE i \in IntakeIds \ DOMAIN db : \A k \in IntakeIds \ DOMAIN db : i <= k
           js == IF o.jobs = {} THEN <<>>
                 ELSE One([(CHOOSE j \in o.jobs : TRUE) EXCEPT !.Id = id])
       IN  /\ db' = PutJobs(db, js)
           /\ jCache' = AddJobs(jCache, js)
           /\ jobsCh' = ModifiedJobsCh(jobsCh, js)
           /\ bb' = o.bb
           /\ notified' = Notify(notified, o.calls)
           /\ poll' = [poll EXCEPT ![p].searched = @ \ {b},
                                   ![p].errs = IF o.ret # Nil THEN @ \cup {<<b, o.ret>>} ELSE @]
           /\ ev' = InsertEvent(IF o.jobs = {} THEN 0 ELSE id, b, o.ret, o.calls, o.input)
  /\ UNCHANGED <<starter, upd, crashed>>
  /\ UNCHANGED life

\* Lines 872-884 of call p: wg.Wait and the result of the call.
PassJoin(p) ==
  /\ poll[p].pc = "page"
  /\ poll[p].todo = {}
  /\ poll[p].searched = {}
  /\ poll' = [poll EXCEPT ![p] = PassIdle]
  /\ ev' = PollEvent(poll[p].errs, <<>>)
  /\ UNCHANGED <<db, jCache, bb, jobsCh, starter, upd, notified, crashed>>
  /\ UNCHANGED life

InitIntake ==
  /\ db = <<>>
  /\ jCache = <<>>
  /\ bb = [b \in Builds |-> [Status |-> SCHEDULED, LeaseKey |-> 0, Old |-> FALSE,
                             Bucket |-> buildbucketBucket]]
  /\ jobsCh = {}
  /\ poll = [p \in Passes |-> PassIdle]
  /\ starter = StarterIdle
  /\ upd = UpdIdle
  /\ notified = {}
  /\ crashed = FALSE
  /\ ev = NoEvent
  /\ life = LifeStart

NextIntake ==
  \/ \E p \in Passes : PassBegin(p)
  \/ \E p \in Passes : PassPeek(p)
  \/ \E p \in Passes, b \in Builds : PassFind(p, b)
  \/ \E p \in Passes, b \in Builds : PassInsert(p, b)
  \/ \E p \in Passes : PassJoin(p)

SpecIntake == InitIntake /\ [][NextIntake]_vars

\* The cleanup loop on its own, over CleanupBuilds started builds, of the
\* bucket of the integrator or of another one, each with the started job of
\* the database for it or with none;
\* the task engine finishes the jobs, the builds grow old or are ended by the
\* service.
InitCleanup ==
  /\ db \in UNION {{d \in [ids -> {StartedJobV1(i) : i \in ids} \cup {StartedJobV2(i) : i \in ids}] :
                      \A i \in ids : d[i].Id = i}
                   : ids \in SUBSET (1..CleanupBuilds)}
  /\ jCache = db
  /\ \E bucket \in [1..CleanupBuilds -> {buildbucketBucket, BUCKET_INTERNAL}] :
       bb = [b \in 1..CleanupBuilds |->
               [Status |-> STARTED,
                LeaseKey |-> IF b \in DOMAIN db /\ ~isBBv2(db[b]) THEN 1 ELSE 0,
                Old |-> FALSE,
                Bucket |-> bucket[b]]]
  /\ jobsCh = {}
  /\ poll = PollIdle
  /\ starter = StarterIdle
  /\ upd = UpdIdle
  /\ notified = {}
  /\ crashed = FALSE
  /\ ev = NoEvent
  /\ life = LifeStart

NextCleanup ==
  \/ Cleanup
  \/ \E b \in 1..CleanupBuilds : Age(b)
  \/ \E i \in 1..CleanupBuilds, st \in {JOB_STATUS_SUCCESS, JOB_STATUS_FAILURE, JOB_STATUS_CANCELED} :
       EngineFinish(i, st)
  \/ \E b \in 1..CleanupBuilds : RemoteEnd(b)

SpecCleanup == InitCleanup /\ [][NextCleanup]_vars

\* -------------------------------------------------------------- properties
\* The lease key and the update token of a record are both empty.
Cleared(j) == j.BuildbucketLeaseKey = 0 /\ j.BuildbucketToken = ""
\* Record a holds the lease key and the token of record b.
KeepsLease(a, b) ==
  /\ a.BuildbucketLeaseKey = b.BuildbucketLeaseKey
  /\ a.BuildbucketToken = b.BuildbucketToken
\* The calls of a step that were about build b.
CallsAbout(calls, b) == {k \in DOMAIN calls : calls[k].build = b}
\* The terminal notification for build b went through in the calls of a step:
\* the service was told, and nothing sent about the build came back with an
\* error other than "already done".
NotificationSucceeded(calls, b) ==
  /\ \E k \in CallsAbout(calls, b) : ToldRemote(calls[k])
  /\ \A k \in CallsAbout(calls, b) :
        calls[k].resp \in {Nil, BUILDBUCKET_API_ERROR_REASON_COMPLETED, ErrAlreadyFinished}

\* C1 as the specification states it: after the reconciler processed the
\* terminal jobs of a pass, the persisted record of each has its lease key and
\* token emptied if and only if its terminal notification succeeded or was
\* answered as already done; a job whose notification failed keeps both.
C1_ClearedIffNotified ==
  ev.op = "finished" =>
    \A i \in DOMAIN ev.jobs :
      /\ Cleared(db[i]) <=> NotificationSucceeded(ev.calls, ev.jobs[i].BuildbucketBuildId)
      /\ ~NotificationSucceeded(ev.calls, ev.jobs[i].BuildbucketBuildId)
           => KeepsLease(db[i], ev.jobs[i])

\* C1 as the code has it: a record is emptied only if the notification of
\* its job succeeded or was answered as already done; it is emptied whenever
\* that is so and the write of the pass to the database succeeded; and a
\* job whose notification failed keeps its lease key and token.
C1_ClearedIffNotifiedAndWritten ==
  ev.op = "finished" =>
    \A i \in DOMAIN ev.jobs :
      LET ok == NotificationSucceeded(ev.calls, ev.jobs[i].BuildbucketBuildId)
      IN  /\ Cleared(db[i]) => ok
          /\ (ok /\ ev.ret = Nil) => Cleared(db[i])
          /\ ~ok => KeepsLease(db[i], ev.jobs[i])

\* A pass over two terminal jobs: one notification went through and the record
\* was emptied, the other failed and the record kept its lease.
C1_Witness ==
  /\ ev.op = "finished"
  /\ ev.ret = Nil
  /\ \E i, k \in DOMAIN ev.jobs :
       /\ NotificationSucceeded(ev.calls, ev.jobs[i].BuildbucketBuildId)
       /\ Cleared(db[i])
       /\ ~NotificationSucceeded(ev.calls, ev.jobs[k].BuildbucketBuildId)
       /\ ~Cleared(db[k])

\* C2: whichever step writes a job record, the lease key or the update token
\* of the persisted record becomes empty only when a terminal notification for
\* the job's build has succeeded, in that step or before it.
C2_ClearedOnlyAfterNotified ==
  [][\A i \in DOMAIN db \cap DOMAIN db' :
       (\/ db[i].BuildbucketLeaseKey # 0 /\ db'[i].BuildbucketLeaseKey = 0
        \/ db[i].BuildbucketToken # "" /\ db'[i].BuildbucketToken = "")
         => db[i].BuildbucketBuildId \in notified']_vars

\* C3: while the loops keep running, every job of the database that is
\* terminal while its remote build has not ended is eventually the subject of
\* a terminal notification to the remote service.
C3_TerminalEventuallyNotified ==
  \A i \in JobIds :
    [](( /\ i \in DOMAIN db
         /\ Done(db[i])
         /\ bb[db[i].BuildbucketBuildId].Status # ENDED )
        => <>(\/ crashed
              \/ i \in DOMAIN db /\ db[i].BuildbucketBuildId \in notified))

\* The steps of the completion reconciler (updateJobs).
ReconcilerOps == {"getActiveTryJobs", "finished", "sendHeartbeats", "sendPubsubUpdates",
                  "updateJobs"}
\* The calls of a step that notify a terminal state of build b.
TerminalCalls(calls, b) == {k \in CallsAbout(calls, b) : calls[k].api \in TerminalApis}

\* C4: once the terminal notification of a job has succeeded and its emptied
\* record is in the database, no later step of the reconciler sends a terminal
\* notification (succeed, fail, update or cancel) for the job's build.
C4_NoRepeatedNotification ==
  [][\A i \in DOMAIN db :
       ( /\ Done(db[i])
         /\ Cleared(db[i])
         /\ db[i].BuildbucketBuildId \in notified
         /\ ev'.op \in ReconcilerOps )
        => TerminalCalls(ev'.calls, db[i].BuildbucketBuildId) = {}]_vars

\* A reconciler pass sent calls to the service while the database held a
\* notified job with an emptied record, which the pass left out.
C4_Witness ==
  /\ ev.op \in {"finished", "sendHeartbeats", "sendPubsubUpdates"}
  /\ ev.calls # <<>>
  /\ \E i \in DOMAIN db :
       /\ Done(db[i])
       /\ Cleared(db[i])
       /\ db[i].BuildbucketBuildId \in notified
       /\ i \notin DOMAIN ev.jobs
       /\ i \notin DOMAIN upd.jobs

\* The remote start of a step was answered "already started".
AnsweredAlreadyStarted(calls) ==
  \E k \in DOMAIN calls :
    calls[k].api = "Start" /\ isBuildAlreadyStartedError(calls[k].resp)

\* C5: when the remote start of a job is answered with the "already started"
\* error, startJob persists the job as CANCELED with a reason that says so
\* and returns an ordinary error to the starter loop; it does not fail fatally.
C5_AlreadyStartedAbsorbed ==
  (ev.op = "startJob" /\ AnsweredAlreadyStarted(ev.calls)) =>
    /\ ~crashed
    /\ ev.ret \notin {Nil, "panic: nil pointer dereference"}
    /\ db[ev.job].Status = JOB_STATUS_CANCELED
    /\ db[ev.job].StatusDetails # NoDetails

\* C6: a startJob that finds the job of the database in a status other than
\* REQUESTED returns without a remote call and without a write, and a job
\* enters IN_PROGRESS only from REQUESTED, in a startJob step that sent the
\* remote start, and never returns to REQUESTED: the transition is persisted
\* at most once however the two triggers interleave.
C6_StartedAtMostOnce ==
  [][/\ (ev'.op = "startJob" /\ db[ev'.job].Status # JOB_STATUS_REQUESTED)
         => /\ db' = db
            /\ jCache' = jCache
            /\ ev'.calls = <<>>
     /\ \A i \in DOMAIN db \cap DOMAIN db' :
          /\ (db[i].Status # JOB_STATUS_IN_PROGRESS /\ db'[i].Status = JOB_STATUS_IN_PROGRESS)
               => /\ db[i].Status = JOB_STATUS_REQUESTED
                  /\ ev'.op = "startJob"
                  /\ ev'.job = i
                  /\ \E k \in DOMAIN ev'.calls : ev'.calls[k].api = "Start"
          /\ db[i].Status # JOB_STATUS_REQUESTED => db'[i].Status # JOB_STATUS_REQUESTED]_vars

\* The second trigger of a job that the first one started: startJob returned
\* nil without a call, and the job is IN_PROGRESS.
C6_Witness ==
  /\ ev.op = "startJob"
  /\ ev.ret = Nil
  /\ ev.calls = <<>>
  /\ db[ev.job].Status = JOB_STATUS_IN_PROGRESS
  /\ bb[ev.build].Status = STARTED

\* The heartbeat request of a step was answered with one result per job, of
\* which exactly the one at index k is "lease expired" and the others carry
\* no error.
OneLeaseExpired(calls, k) ==
  /\ calls # <<>>
  /\ calls[1].api = "HeartbeatBatch"
  /\ calls[1].ok
  /\ k \in DOMAIN calls[1].results
  /\ \A n \in DOMAIN calls[1].results :
        calls[1].results[n] = IF n = k THEN BUILDBUCKET_API_ERROR_REASON_LEASE_EXPIRED ELSE Nil
\* The calls of a step with the given api.
CallsOf(calls, api) == {n \in DOMAIN calls : calls[n].api = api}

\* C7: when the results of a heartbeat batch of N legacy jobs hold exactly one
\* "lease expired", at index k, and no other error, sendHeartbeats sends one
\* lease request, for the build of job k, and leaves the other N-1 jobs
\* alone: no call about their builds, no cancel, and no field of theirs
\* changes in the database, the cache or the tick's own copy.
C7_ReLeaseExactlyExpired ==
  [][\A k \in 1..BatchJobs :
       (ev'.op = "sendHeartbeats" /\ OneLeaseExpired(ev'.calls, k)) =>
         LET batch == SortedIds(ev'.jobs, DOMAIN ev'.jobs)
             jk == batch[k]
         IN  /\ Len(batch) = Len(ev'.calls[1].results)
             /\ Cardinality(CallsOf(ev'.calls, "Lease")) = 1
             /\ \A n \in CallsOf(ev'.calls, "Lease") :
                   ev'.calls[n].build = ev'.jobs[jk].BuildbucketBuildId
             /\ CallsOf(ev'.calls, "Cancel") = {}
             /\ \A i \in DOMAIN ev'.jobs \ {jk} :
                   /\ CallsAbout(ev'.calls, ev'.jobs[i].BuildbucketBuildId) = {}
                   /\ db'[i] = db[i]
                   /\ jCache'[i] = jCache[i]
                   /\ ev'.after[i] = ev'.jobs[i]
                   /\ bb'[ev'.jobs[i].BuildbucketBuildId] = bb[ev'.jobs[i].BuildbucketBuildId]]_vars

\* A batch of two jobs whose second result was "lease expired": one lease
\* request was sent, for the second job's build.
C7_Witness ==
  /\ ev.op = "sendHeartbeats"
  /\ Cardinality(DOMAIN ev.jobs) = 2
  /\ OneLeaseExpired(ev.calls, 2)
  /\ Cardinality(CallsOf(ev.calls, "Lease")) = 1

\* The input of a build fails the validation of lines 598-605.
InvalidInput(input) ==
  \/ Len(input.GerritChanges) # 1
  \/ input.GerritChanges[1].Project \notin KnownProjects

\* C8: for a pending (SCHEDULED) build whose input does not carry exactly one
\* code-review reference, or whose reference names a project outside the
\* project-to-repository mapping, intake sends the remote cancel of the build
\* (ending it when the call goes through) and creates no job: the database and
\* the cache stay as they were.
C8_InvalidBuildCancelled ==
  [][( /\ ev'.op = "insertNewJobV1"
       /\ ev'.input.got
       /\ InvalidInput(ev'.input)
       /\ bb[ev'.build].Status = SCHEDULED )
      => /\ \E k \in CallsAbout(ev'.calls, ev'.build) : ev'.calls[k].api = "Cancel"
         /\ \A k \in CallsAbout(ev'.calls, ev'.build) :
               (ev'.calls[k].api = "Cancel" /\ ev'.calls[k].ok)
                 => bb'[ev'.build].Status = ENDED
         /\ CallsOf(ev'.calls, "Lease") = {}
         /\ ev'.job = 0
         /\ db' = db
         /\ jCache' = jCache]_vars

\* Intake met a build of an unknown project, cancelled it and made no job.
C8_Witness ==
  /\ ev.op = "insertNewJobV1"
  /\ ev.input.got
  /\ Len(ev.input.GerritChanges) = 1
  /\ ev.input.GerritChanges[1].Project \notin KnownProjects
  /\ \E k \in CallsAbout(ev.calls, ev.build) : ev.calls[k].api = "Cancel" /\ ev.calls[k].ok
  /\ bb[ev.build].Status = ENDED
  /\ JobsForBuild(db, ev.build) = {}

\* C9: intake creates a job for a build only from a lease call that came back
\* with no error, no rejection and a non-zero lease key; the job it puts
\* into the database is REQUESTED, holds that lease key, the repository the
\* project maps to, an empty revision and the build's id, and the cache holds
\* the same job.
C9_JobOnlyOnLease ==
  [][/\ \A i \in DOMAIN db' \ DOMAIN db :
          \/ ev'.op = "RunTask"
          \/ /\ ev'.op = "insertNewJobV1"
             /\ ev'.job = i
             /\ \E k \in CallsAbout(ev'.calls, ev'.build) :
                  ev'.calls[k].api = "Lease" /\ ev'.calls[k].ok
             /\ bb'[ev'.build].LeaseKey # 0
             /\ db'[i].Status = JOB_STATUS_REQUESTED
             /\ db'[i].BuildbucketLeaseKey = bb'[ev'.build].LeaseKey
             /\ db'[i].Repo = "skia.git"
             /\ ev'.input.GerritChanges[1].Project = "skia"
             /\ db'[i].Revision = ""
             /\ db'[i].BuildbucketBuildId = ev'.build
             /\ i \in DOMAIN jCache'
             /\ jCache'[i] = db'[i]
     /\ (ev'.op = "insertNewJobV1" /\ ev'.job # 0) => ev'.job \in DOMAIN db' \ DOMAIN db]_vars

\* Intake leased a build and put its job into the database and the cache.
C9_Witness ==
  /\ ev.op = "insertNewJobV1"
  /\ ev.job \in DOMAIN db
  /\ db[ev.job].Status = JOB_STATUS_REQUESTED
  /\ db[ev.job].BuildbucketLeaseKey # 0
  /\ db[ev.job].BuildbucketLeaseKey = bb[ev.build].LeaseKey
  /\ db[ev.job].Revision = ""
  /\ jCache[ev.job] = db[ev.job]

\* The remote start of a step came back without an error or a rejection.
StartAccepted(calls) == \E k \in DOMAIN calls : calls[k].api = "Start" /\ calls[k].ok
\* The record of job i is that of a started job: IN_PROGRESS, the revision a
\* commit hash of the repository, the dependencies those of the job spec, and
\* the token the one the remote start of the step returned, if it returned one.
PersistedStarted(i, calls) ==
  /\ db[i].Status = JOB_STATUS_IN_PROGRESS
  /\ db[i].Revision = "abc123"
  /\ db[i].Dependencies = {"Build", "Test"}
  /\ \A k \in DOMAIN calls :
        (calls[k].api = "Start" /\ calls[k].token # "")
          => db[i].BuildbucketToken = calls[k].token

\* C10 as the specification states it: when startJob ran on a REQUESTED job
\* whose revision resolved, whose repo state and job spec were good, and the
\* remote start returned no error, the job is persisted IN_PROGRESS with the
\* resolved hash, its dependencies and the returned token.
C10_StartPersisted ==
  (ev.op = "startJob" /\ StartAccepted(ev.calls)) => PersistedStarted(ev.job, ev.calls)

\* C10 as the code has it: the same, provided the write to the database went
\* through (startJob returned nil); when the write failed startJob returns
\* the error and the record of the database is still REQUESTED.
C10_StartPersistedIfWritten ==
  (ev.op = "startJob" /\ StartAccepted(ev.calls)) =>
    /\ ev.ret = Nil => PersistedStarted(ev.job, ev.calls) /\ jCache[ev.job] = db[ev.job]
    /\ ev.ret # Nil => /\ ev.ret = "failed to insert Job into the DB"
                       /\ db[ev.job].Status = JOB_STATUS_REQUESTED

\* A start the service accepted and answered with a token, persisted.
C10_Witness ==
  /\ ev.op = "startJob"
  /\ ev.ret = Nil
  /\ \E k \in DOMAIN ev.calls :
       ev.calls[k].api = "Start" /\ ev.calls[k].ok /\ ev.calls[k].token = "tok1"
  /\ db[ev.job].Status = JOB_STATUS_IN_PROGRESS
  /\ db[ev.job].BuildbucketToken = "tok1"

\* The terminal notification of build b was answered "already finished" in
\* the calls of a step: UpdateBuild failed with "cannot update an ended
\* build", or Succeed / Fail came back with the reason BUILD_IS_COMPLETED.
AnsweredAlreadyFinished(calls, b) ==
  \E k \in CallsAbout(calls, b) :
    \/ calls[k].api = "UpdateBuild" /\ isBuildAlreadyFinishedError(calls[k].resp)
    \/ /\ calls[k].api \in {"Succeed", "Fail"}
       /\ calls[k].resp = BUILDBUCKET_API_ERROR_REASON_COMPLETED

\* C11 as the specification states it: when the reconciler's terminal
\* notification of a job is answered "already finished", the reconciler takes
\* it as a success (no error for the job), empties the job's lease key and
\* token and the persisted record has both empty.
C11_AlreadyFinishedCleared ==
  ev.op = "finished" =>
    \A i \in DOMAIN ev.jobs :
      AnsweredAlreadyFinished(ev.calls, ev.jobs[i].BuildbucketBuildId) =>
        /\ <<i, "jobFinished">> \notin ev.errs
        /\ i \in DOMAIN ev.insert
        /\ Cleared(ev.insert[i])
        /\ Cleared(db[i])

\* C11 as the code has it: the answer is taken as a success and the job is
\* emptied in the pass's own copy and in the cache; the persisted record is
\* emptied provided the write of the pass (PutJobsInChunks) went through.
C11_AlreadyFinishedClearedIfWritten ==
  ev.op = "finished" =>
    \A i \in DOMAIN ev.jobs :
      AnsweredAlreadyFinished(ev.calls, ev.jobs[i].BuildbucketBuildId) =>
        /\ <<i, "jobFinished">> \notin ev.errs
        /\ i \in DOMAIN ev.insert
        /\ Cleared(ev.insert[i])
        /\ Cleared(jCache[i])
        /\ ev.ret = Nil => Cleared(db[i])

\* One pass met both answers: an async job whose UpdateBuild failed with
\* "cannot update an ended build" and a legacy job whose Succeed or Fail came
\* back BUILD_IS_COMPLETED; both records were written with empty fields.
C11_Witness ==
  /\ ev.op = "finished"
  /\ ev.ret = Nil
  /\ \E i, k \in DOMAIN ev.jobs :
       /\ isBBv2(ev.jobs[i])
       /\ ev.jobs[i].BuildbucketToken = "tok1"
       /\ \E n \in CallsAbout(ev.calls, ev.jobs[i].BuildbucketBuildId) :
            ev.calls[n].api = "UpdateBuild" /\ ev.calls[n].resp = ErrAlreadyFinished
       /\ Cleared(db[i])
       /\ ~isBBv2(ev.jobs[k])
       /\ \E n \in CallsAbout(ev.calls, ev.jobs[k].BuildbucketBuildId) :
            ev.calls[n].resp = BUILDBUCKET_API_ERROR_REASON_COMPLETED
       /\ Cleared(db[k])

\* The job findJobForBuild returns for build b: the first one found.
JobOfBuild(b) == db[CHOOSE i \in JobsForBuild(db, b) : \A k \in JobsForBuild(db, b) : i <= k]

\* C12: when a cleanup pass gets, for a STARTED build older than the age
\* threshold, a local job that is terminal and holds no update token, it calls
\* CancelBuild for that build and sends no UpdateBuild for it.
C12_NoTokenCancelled ==
  ev.op = "buildbucketCleanup" =>
    \A b \in ev.found :
      (Done(JobOfBuild(b)) /\ JobOfBuild(b).BuildbucketToken = "") =>
        /\ b \in ev.builds
        /\ \E k \in CallsAbout(ev.calls, b) : ev.calls[k].api = "CancelBuild"
        /\ \A k \in CallsAbout(ev.calls, b) : ev.calls[k].api # "UpdateBuild"

\* A cleanup pass met the stale build of a CANCELED job without a token and
\* cancelled the build.
C12_Witness ==
  /\ ev.op = "buildbucketCleanup"
  /\ \E b \in ev.found :
       /\ JobOfBuild(b).Status = JOB_STATUS_CANCELED
       /\ JobOfBuild(b).BuildbucketToken = ""
       /\ \E k \in CallsAbout(ev.calls, b) : ev.calls[k].api = "CancelBuild" /\ ev.calls[k].ok
       /\ bb[b].Status = ENDED

\* C13: every job record a step writes to the database has its finished
\* timestamp set if and only if its status is terminal; so a job the starter
\* writes as MISHAP and a job localCancelJobs writes as CANCELED both carry a
\* finished timestamp.
C13_FinishedIffTerminal ==
  [][\A i \in DOMAIN db' :
       (i \notin DOMAIN db \/ db'[i] # db[i])
         => (db'[i].Finished # 0 <=> Done(db'[i]))]_vars

\* C14: whatever Poll calls have run, also with the work for one build of two
\* calls running in parallel, the database holds at most one job for each
\* build id.
C14_OneJobPerBuild ==
  \A b \in Builds : Cardinality(JobsForBuild(db, b)) <= 1

\* C15: whatever the remote service answers, every operation of the
\* integrator ends by returning nil or an error: no step ends in a panic and
\* the process is never brought down.
C15_NoPanic ==
  /\ ~crashed
  /\ ev.ret # "panic: nil pointer dereference"

\* C16: once the status of a job of the database is terminal, no step changes
\* it again, however the heartbeats, the starter and the task engine
\* interleave; so localCancelJobs, given a job as it was before the engine
\* finished it, leaves the SUCCESS or FAILURE of the database in place.
C16_TerminalStatusKept ==
  [][\A i \in DOMAIN db \cap DOMAIN db' :
       Done(db[i]) => db'[i].Status = db[i].Status]_vars

\* A job that holds a lease key or an update token and is past REQUESTED.
HoldsLeaseAndStarted(j) ==
  /\ ~(j.BuildbucketLeaseKey = 0 /\ j.BuildbucketToken = "")
  /\ j.Status \in {JOB_STATUS_IN_PROGRESS, JOB_STATUS_SUCCESS, JOB_STATUS_FAILURE,
                    JOB_STATUS_MISHAP, JOB_STATUS_CANCELED}
\* The builds a step sent something about: the builds of its calls and of
\* the entries of its heartbeat requests.
BuildsSentAbout(calls) ==
  {calls[k].build : k \in {n \in DOMAIN calls : calls[n].build # 0}}
  \cup UNION {{calls[k].heartbeats[n].BuildId : n \in DOMAIN calls[k].heartbeats}
              : k \in CallsOf(calls, "HeartbeatBatch")}

\* C17: the jobs an update tick takes up are exactly the jobs of the refreshed
\* cache that hold a lease key or an update token and are not REQUESTED, and
\* whatever the tick sends (heartbeats, async updates, terminal notifications)
\* is about the build of one of these jobs: nothing is sent for a REQUESTED
\* job or for a job with neither lease key nor token.
C17_ActsOnActiveJobs ==
  /\ ev.op = "getActiveTryJobs" =>
       /\ DOMAIN ev.jobs = {i \in DOMAIN jCache : HoldsLeaseAndStarted(jCache[i])}
       /\ \A i \in DOMAIN ev.jobs : ev.jobs[i] = jCache[i]
       /\ upd.jobs = ev.jobs
  /\ ev.op \in {"finished", "sendHeartbeats", "sendPubsubUpdates"} =>
       /\ \A b \in BuildsSentAbout(ev.calls) :
             \E i \in DOMAIN upd.jobs :
               upd.jobs[i].BuildbucketBuildId = b /\ HoldsLeaseAndStarted(upd.jobs[i])
       /\ \A i \in DOMAIN db \ DOMAIN upd.jobs :
             db[i].BuildbucketBuildId \notin BuildsSentAbout(ev.calls)

\* A tick sent heartbeats or updates while the database held a REQUESTED job
\* with a lease key or a token, which the tick left out.
C17_Witness ==
  /\ ev.op \in {"sendHeartbeats", "sendPubsubUpdates"}
  /\ BuildsSentAbout(ev.calls) # {}
  /\ \E i \in DOMAIN db :
       /\ db[i].Status = JOB_STATUS_REQUESTED
       /\ isActiveAnyStatus(db[i])
       /\ i \notin DOMAIN upd.jobs
       /\ db[i].BuildbucketBuildId \notin BuildsSentAbout(ev.calls)

\* The jobs of a heartbeat step whose result was "lease expired": the
\* results of the batch are in the order of the jobs sorted by build id.
LeaseExpiredJobs(e) ==
  IF e.calls = <<>> \/ ~e.calls[1].ok THEN {}
  ELSE {SortedIds(e.jobs, DOMAIN e.jobs)[k] :
          k \in {n \in DOMAIN e.calls[1].results :
                   e.calls[1].results[n] = BUILDBUCKET_API_ERROR_REASON_LEASE_EXPIRED}}
\* The lease request a step sent for build b failed: in transport, or with a
\* rejection of the service.
LeaseFailed(calls, b) ==
  \E k \in CallsAbout(calls, b) :
    /\ calls[k].api = "Lease"
    /\ calls[k].resp \in {ErrTransport, BUILDBUCKET_API_ERROR_REASON_INVALID_INPUT,
                           BUILDBUCKET_API_ERROR_REASON_COMPLETED}

\* C18: when the heartbeat of a job was answered "lease expired" and the one
\* lease request sent for it failed as well, the heartbeat pass cancels the
\* job (status CANCELED, with a reason that names the failure), sends the
\* remote cancel of its build, and does not put the lease key of the failed
\* request into the job.
C18_FailedReLeaseCancelled ==
  ev.op = "sendHeartbeats" =>
    \A i \in LeaseExpiredJobs(ev) :
      LeaseFailed(ev.calls, ev.jobs[i].BuildbucketBuildId) =>
        /\ ev.after[i].Status = JOB_STATUS_CANCELED
        /\ ev.after[i].StatusDetails.text
             = "Buildbucket rejected heartbeat and failed to re-lease with: %s"
        /\ \E k \in CallsAbout(ev.calls, ev.jobs[i].BuildbucketBuildId) :
             ev.calls[k].api = "Cancel"

\* The result of the heartbeat step e for job i (Nil for none).
HeartbeatResult(e, i) ==
  IF e.calls = <<>> \/ ~e.calls[1].ok THEN Nil
  ELSE LET pos == {n \in DOMAIN e.calls[1].results :
                     SortedIds(e.jobs, DOMAIN e.jobs)[n] = i}
       IN  IF pos = {} THEN Nil ELSE e.calls[1].results[CHOOSE n \in pos : TRUE]

\* C19: when the heartbeat of a job is rejected for a reason other than
\* "already completed" and "lease expired", the heartbeat pass cancels the
\* job with a reason that cites the rejection reason, and sends the remote
\* cancel of the job's build.
C19_RejectedCancelledBothSides ==
  ev.op = "sendHeartbeats" =>
    \A i \in DOMAIN ev.jobs :
      HeartbeatResult(ev, i) \notin {Nil, BUILDBUCKET_API_ERROR_REASON_COMPLETED,
                                     BUILDBUCKET_API_ERROR_REASON_LEASE_EXPIRED} =>
        /\ ev.after[i].Status = JOB_STATUS_CANCELED
        /\ ev.after[i].StatusDetails.text = "Buildbucket rejected heartbeat with: %s"
        /\ ev.after[i].StatusDetails.arg = HeartbeatResult(ev, i)
        /\ \E k \in CallsAbout(ev.calls, ev.jobs[i].BuildbucketBuildId) :
             ev.calls[k].api = "Cancel"

\* C20: when the heartbeat of an unfinished legacy job is answered "already
\* completed", the heartbeat pass leaves the job as it is (in the database,
\* in the cache and in its own copy) and, if no entry of the pass was
\* answered otherwise, reports no error; and the next update tick that runs to
\* its end without an error leaves the job cleared: lease key zero and no
\* longer active.
C20_CompletedClearedNextPass ==
  [][/\ ev'.op = "sendHeartbeats" =>
          /\ \A i \in DOMAIN ev'.jobs :
                HeartbeatResult(ev', i) = BUILDBUCKET_API_ERROR_REASON_COMPLETED =>
                  /\ ev'.after[i] = ev'.jobs[i]
                  /\ db'[i] = db[i]
                  /\ jCache'[i] = jCache[i]
          /\ ( /\ ev'.calls # <<>>
               /\ ev'.calls[1].ok
               /\ \A i \in DOMAIN ev'.jobs :
                     HeartbeatResult(ev', i) \in {Nil, BUILDBUCKET_API_ERROR_REASON_COMPLETED} )
               => ev'.ret = Nil
     /\ (ev'.op = "updateJobs" /\ ev'.ret = Nil) =>
          \A i \in ev'.due :
            /\ db'[i].BuildbucketLeaseKey = 0
            /\ ~isActive(db'[i])]_vars

\* The repo state intake builds from the input of a build (lines 610-621) is
\* on the denylist of skipRepoState.
DenylistedInput(input) ==
  /\ Len(input.GerritChanges) = 1
  /\ input.GerritChanges[1].Project \in KnownProjects
  /\ skipRepoState(NewJobV1(0, input.GerritChanges[1]))

\* C21: for a pending (SCHEDULED) build whose repo state is on the denylist,
\* intake skips the build at once: it sends no lease request for it and
\* creates no job.
C21_DenylistedSkipped ==
  [][( /\ ev'.op = "insertNewJobV1"
       /\ ev'.input.got
       /\ DenylistedInput(ev'.input)
       /\ bb[ev'.build].Status = SCHEDULED )
      => /\ CallsOf(ev'.calls, "Lease") = {}
         /\ ev'.job = 0
         /\ db' = db]_vars

\* The position, among the calls of an intake step for a build whose status
\* was st, of the lease request of line 639: the first call for a SCHEDULED
\* build, the third otherwise (after the lease and the cancel of lines
\* 585-591); 0 when the step did not get that far.
LeasePos(calls, st) ==
  LET n == IF st = SCHEDULED THEN 1 ELSE 3
  IN  IF n \in DOMAIN calls /\ calls[n].api = "Lease" THEN n ELSE 0

\* C22: when the lease request of intake for a build is rejected with
\* INVALID_INPUT, the build is ignored: no job is created, no cancel is sent
\* after the rejection, and the pass gets no error for the build; when it is
\* rejected for another reason, or answered with a zero lease key, the remote
\* cancel of the build is sent and no job is created.
C22_InvalidInputIgnored ==
  [][ev'.op = "insertNewJobV1" =>
       LET n == LeasePos(ev'.calls, bb[ev'.build].Status)
       IN  n # 0 =>
             /\ ev'.calls[n].resp = BUILDBUCKET_API_ERROR_REASON_INVALID_INPUT =>
                  /\ ev'.job = 0
                  /\ db' = db
                  /\ jCache' = jCache
                  /\ Len(ev'.calls) = n
                  /\ ev'.ret = Nil
                  /\ poll'.errs = poll.errs
             /\ ev'.calls[n].resp \in {BUILDBUCKET_API_ERROR_REASON_COMPLETED, "zero lease key"} =>
                  /\ ev'.job = 0
                  /\ db' = db
                  /\ jCache' = jCache
                  /\ Len(ev'.calls) = n + 1
                  /\ ev'.calls[n + 1].api = "Cancel"
                  /\ ev'.calls[n + 1].build = ev'.build]_vars

\* Intake asked for the lease of a pending build and was answered
\* INVALID_INPUT: the build is still scheduled, there is no job for it and the
\* pass has no error.
C22_Witness ==
  /\ ev.op = "insertNewJobV1"
  /\ Len(ev.calls) = 1
  /\ ev.calls[1].api = "Lease"
  /\ ev.calls[1].resp = BUILDBUCKET_API_ERROR_REASON_INVALID_INPUT
  /\ bb[ev.build].Status = SCHEDULED
  /\ JobsForBuild(db, ev.build) = {}
  /\ poll.errs = {}

\* The lease request of line 639 at position n of the calls of an intake
\* step failed in transport, or it was granted and the remote cancel of line
\* 662 follows it: db.PutJob failed.
LeaseOrPersistFailed(calls, n) ==
  /\ n # 0
  /\ \/ calls[n].resp = ErrTransport
     \/ /\ calls[n].ok
        /\ n + 1 \in DOMAIN calls
        /\ calls[n + 1].api = "Cancel"

\* C23: a transport error in the lease or in the write of the job of one
\* build ends the intake of that build only: the pass goes on with the other
\* builds of the page and with the next pages, there is no job for the build
\* afterwards, the error of the build is among the errors of the pass, and
\* Poll returns an error at the end of the pass whenever it collected one.
C23_TransportErrorAbortsOneBuild ==
  [][/\ ev'.op = "insertNewJobV1" =>
          LET n == LeasePos(ev'.calls, bb[ev'.build].Status)
          IN  LeaseOrPersistFailed(ev'.calls, n) =>
                /\ JobsForBuild(db', ev'.build) = {}
                /\ ev'.ret # Nil
                /\ poll'.errs = poll.errs \cup {<<ev'.build, ev'.ret>>}
                /\ poll'.pc = "page"
                /\ poll'.todo = poll.todo \ {ev'.build}
                /\ poll'.next = poll.next
     /\ (ev'.op = "Poll" /\ poll.pc = "page") =>
          /\ poll.todo = {}
          /\ ~poll.next
          /\ ev'.errs = poll.errs
          /\ ev'.errs # {} => ev'.ret # Nil]_vars

\* C24: every loop over several jobs or builds goes through all of its items
\* also when an earlier item failed, and returns an error after the loop if
\* any item failed: the reconciler notifies every finished job, the async
\* updates are sent for every job, and a cleanup pass whose search returned
\* the stale builds gets to each of them, whatever happened to the builds
\* before it.
C24_LoopsProcessEveryItem ==
  /\ ev.op = "finished" =>
       /\ \A i \in DOMAIN ev.jobs : CallsAbout(ev.calls, ev.jobs[i].BuildbucketBuildId) # {}
       /\ ev.errs # {} => upd.errs # {}
  /\ ev.op = "sendPubsubUpdates" =>
       /\ \A i \in DOMAIN ev.jobs : CallsAbout(ev.calls, ev.jobs[i].BuildbucketBuildId) # {}
       /\ ev.errs # {} => ev.ret # Nil
  /\ (ev.op = "buildbucketCleanup" /\ ev.calls[1].ok) =>
       \A b \in ev.builds : b \in ev.reached

\* C25: in a reconciler pass over several finished jobs every job is
\* notified, and a notification that fails does not keep the jobs whose
\* notification succeeded from being emptied: they are in the batch the pass
\* writes, with lease key and token empty, and the record of the database is
\* the emptied one once that write went through; the failures are all among
\* the errors of the tick, and the tick returns nil only if it collected no
\* error.
C25_FailureDoesNotBlockOthers ==
  [][/\ ev'.op = "finished" =>
          /\ \A i \in DOMAIN ev'.jobs :
                LET b == ev'.jobs[i].BuildbucketBuildId
                IN  /\ TerminalCalls(ev'.calls, b) # {}
                    /\ NotificationSucceeded(ev'.calls, b) =>
                         /\ i \in DOMAIN ev'.insert
                         /\ ev'.insert[i] = clearedJob(ev'.jobs[i])
                         /\ Cleared(ev'.insert[i])
                         /\ ev'.ret = Nil => db'[i] = ev'.insert[i]
                    /\ ~NotificationSucceeded(ev'.calls, b) =>
                         /\ <<i, "jobFinished">> \in ev'.errs
                         /\ i \notin DOMAIN ev'.insert
          /\ ev'.errs \subseteq upd'.errs
          /\ ev'.ret # Nil => upd'.errs # {}
     /\ (ev'.op = "updateJobs" /\ upd.pc = "run") =>
          /\ ev'.errs = upd.errs
          /\ ev'.ret = Nil <=> ev'.errs = {}]_vars

\* A pass over two finished jobs: the notification of the first failed, that
\* of the second went through and its record was written with empty fields,
\* and the tick holds the error of the first.
C25_Witness ==
  /\ ev.op = "finished"
  /\ DOMAIN ev.jobs = {1, 2}
  /\ ev.errs = {<<1, "jobFinished">>}
  /\ ev.ret = Nil
  /\ NotificationSucceeded(ev.calls, ev.jobs[2].BuildbucketBuildId)
  /\ db[2] = clearedJob(ev.jobs[2])
  /\ ~Cleared(db[1])
  /\ <<1, "jobFinished">> \in upd.errs

\* startJobHelper of a startJob step returned an error.
HelperFailed(e) == e.op = "startJob" /\ e.helper \notin {Nil, "ok"}

\* C26 as the specification states it: when startJobHelper fails, whatever
\* the reason, the job is persisted as MISHAP with a message of at most 1024
\* characters, the remote start is not sent, and no later trigger starts the
\* job again.
C26_MishapPersisted ==
  [][/\ HelperFailed(ev') =>
          /\ ev'.calls = <<>>
          /\ db'[ev'.job].Status = JOB_STATUS_MISHAP
          /\ db'[ev'.job].StatusDetails.text = "Failed to start Job: %s"
          /\ db'[ev'.job].StatusDetails.len <= 1024
     /\ \A i \in DOMAIN db :
          db[i].Status = JOB_STATUS_MISHAP =>
            /\ db'[i].Status = JOB_STATUS_MISHAP
            /\ (ev'.op = "startJob" /\ ev'.job = i) =>
                 ev'.calls = <<>> /\ db' = db /\ ev'.helper = Nil]_vars

\* C26 as the code has it: the same, provided the write of the job went
\* through (startJob returned nil); when db.PutJob fails startJob returns
\* that error and the database is as it was, the job still REQUESTED.
C26_MishapPersistedIfWritten ==
  [][/\ HelperFailed(ev') =>
          /\ ev'.calls = <<>>
          /\ bb' = bb
          /\ ev'.ret = Nil =>
               /\ db'[ev'.job].Status = JOB_STATUS_MISHAP
               /\ db'[ev'.job].StatusDetails.text = "Failed to start Job: %s"
               /\ db'[ev'.job].StatusDetails.len <= 1024
               /\ jCache'[ev'.job] = db'[ev'.job]
          /\ ev'.ret # Nil =>
               /\ ev'.ret = "failed to insert Job into the DB"
               /\ db' = db
               /\ db[ev'.job].Status = JOB_STATUS_REQUESTED
     /\ \A i \in DOMAIN db :
          db[i].Status = JOB_STATUS_MISHAP =>
            /\ db'[i].Status = JOB_STATUS_MISHAP
            /\ (ev'.op = "startJob" /\ ev'.job = i) =>
                 ev'.calls = <<>> /\ db' = db /\ ev'.helper = Nil]_vars

\* The task configuration of a job came with a cached error of 2000
\* characters: the job was written as MISHAP with the message cut to 1024.
C26_Witness ==
  /\ ev.op = "startJob"
  /\ ev.helper = "cached error"
  /\ ev.ret = Nil
  /\ ev.calls = <<>>
  /\ db[ev.job].Status = JOB_STATUS_MISHAP
  /\ db[ev.job].StatusDetails.len = 1024

\* The remote start of a step failed with an error that is not "already
\* started", and without a rejection of the service.
StartTransportError(calls) ==
  \E k \in DOMAIN calls :
    /\ calls[k].api = "Start"
    /\ calls[k].resp = ErrTransport

\* C27: when the remote start fails with a transport error other than
\* "already started", startJob returns the error and writes nothing: the
\* record of the database and the job of the cache are as before, REQUESTED.
\* The periodic scan hands every REQUESTED job of the cache to startJob, and
\* a startJob whose helper succeeded sends the remote start; so the next scan
\* runs startJob, and with it the remote start, for that job again.
C27_TransportErrorRetried ==
  [][/\ (ev'.op = "startJob" /\ StartTransportError(ev'.calls)) =>
          /\ ev'.ret = "failed to send job-started notification"
          /\ db' = db
          /\ jCache' = jCache
          /\ db'[ev'.job].Status = JOB_STATUS_REQUESTED
          /\ ev'.job \in DOMAIN jCache' => jCache'[ev'.job].Status = JOB_STATUS_REQUESTED
     /\ (ev'.op = "startJobsLoop" /\ ev'.job = 0) =>
          \A i \in DOMAIN jCache :
            jCache[i].Status = JOB_STATUS_REQUESTED =>
              \E k \in DOMAIN starter'.todo : starter'.todo[k] = jCache[i]
     /\ (ev'.op = "startJob" /\ ev'.helper = "ok") =>
          /\ db[ev'.job].Status = JOB_STATUS_REQUESTED
          /\ CallsOf(ev'.calls, "Start") # {}]_vars

\* The remote start of a job failed in transport: startJob returned the
\* error, the job is REQUESTED in the database and in the cache, from where
\* the periodic scan takes it.
C27_Witness ==
  /\ ev.op = "startJob"
  /\ StartTransportError(ev.calls)
  /\ ev.ret = "failed to send job-started notification"
  /\ db[ev.job].Status = JOB_STATUS_REQUESTED
  /\ ev.job \in DOMAIN jCache
  /\ Len(RequestedJobs(jCache)) = 1
  /\ RequestedJobs(jCache)[1].Id = ev.job

\* The reasons the service rejects a start with.
StartRejections ==
  {BUILDBUCKET_API_ERROR_REASON_LEASE_EXPIRED, BUILDBUCKET_API_ERROR_REASON_COMPLETED,
   BUILDBUCKET_API_ERROR_REASON_INVALID_INPUT, REASON_OTHER}
\* The remote start of a step was answered with a rejection.
StartRejectedWith(calls, reason) ==
  \E k \in DOMAIN calls : calls[k].api = "Start" /\ calls[k].resp = reason
\* Record j is that of a job cancelled because its start was rejected.
CanceledForRejection(j, reason) ==
  /\ j.Status = JOB_STATUS_CANCELED
  /\ j.StatusDetails.text = "Buildbucket rejected Start with: %s"
  /\ j.StatusDetails.arg = reason

\* C28 as the specification states it: when the remote start is answered
\* with a rejection, the job is persisted as CANCELED with a reason that
\* names the rejection, it is not persisted as IN_PROGRESS, and startJob
\* returns an error.
C28_RejectedStartCancelled ==
  \A reason \in StartRejections :
    (ev.op = "startJob" /\ StartRejectedWith(ev.calls, reason)) =>
      /\ CanceledForRejection(db[ev.job], reason)
      /\ ev.ret # Nil
      /\ ~crashed

\* C28 as the code has it: startJob returns an error and does not persist
\* the job as IN_PROGRESS; the job is persisted as CANCELED, with the reason
\* and without its lease key, provided the write of localCancelJobs went
\* through; when that write failed the returned error says so and the record
\* of the database is still REQUESTED.
C28_RejectedStartCancelledIfWritten ==
  \A reason \in StartRejections :
    (ev.op = "startJob" /\ StartRejectedWith(ev.calls, reason)) =>
      /\ ~crashed
      /\ ev.ret \in {"failed to start job", "failed to start job and failed to cancel job"}
      /\ db[ev.job].Status # JOB_STATUS_IN_PROGRESS
      /\ ev.ret = "failed to start job" =>
           /\ CanceledForRejection(db[ev.job], reason)
           /\ db[ev.job].BuildbucketLeaseKey = 0
           /\ jCache[ev.job] = db[ev.job]
      /\ ev.ret = "failed to start job and failed to cancel job" =>
           db[ev.job].Status = JOB_STATUS_REQUESTED

\* The start of a legacy job was rejected with LEASE_EXPIRED and the job was
\* written as CANCELED with that reason.
C28_Witness ==
  /\ ev.op = "startJob"
  /\ StartRejectedWith(ev.calls, BUILDBUCKET_API_ERROR_REASON_LEASE_EXPIRED)
  /\ ev.ret = "failed to start job"
  /\ CanceledForRejection(db[ev.job], BUILDBUCKET_API_ERROR_REASON_LEASE_EXPIRED)

\* The UpdateBuild calls of a step about build b.
UpdateCalls(calls, b) == {k \in CallsAbout(calls, b) : calls[k].api = "UpdateBuild"}
\* updateBuild for build b failed in the calls of a step with something
\* other than "already finished": the request itself, or the publish after it.
UpdateFailedOtherwise(calls, b) ==
  \E k \in UpdateCalls(calls, b) :
    \/ calls[k].resp = ErrTransport
    \/ /\ calls[k].ok
       /\ k + 1 \in DOMAIN calls
       /\ calls[k + 1].api = "Publish"
       /\ ~calls[k + 1].ok

\* C29: when a cleanup pass gets, for a stale STARTED build, a local job that
\* is terminal and still holds its update token, it calls updateBuild for it
\* exactly once.  When the service answers that the build has already
\* finished, no cancel is sent and the pass goes on as after a success: to
\* the next build, or to its end without an error.  When updateBuild fails in
\* another way, cancelBuild is called for the build; when it succeeds, it is
\* not.
C29_UpdateThenCancelFallback ==
  ev.op = "buildbucketCleanup" =>
    \A b \in ev.found :
      (Done(JobOfBuild(b)) /\ JobOfBuild(b).BuildbucketToken # "") =>
        LET cancels == {k \in CallsAbout(ev.calls, b) : ev.calls[k].api = "CancelBuild"}
        IN  /\ Cardinality(UpdateCalls(ev.calls, b)) = 1
            /\ AnsweredAlreadyFinished(ev.calls, b) =>
                 /\ cancels = {}
                 /\ \A c \in ev.builds :
                       (c > b /\ \A x \in ev.builds : x > b => c <= x) => c \in ev.reached
                 /\ (\A c \in ev.builds : c <= b) => ev.ret = Nil
            /\ UpdateFailedOtherwise(ev.calls, b) => Cardinality(cancels) = 1
            /\ (~UpdateFailedOtherwise(ev.calls, b)) => cancels = {}

\* A cleanup pass over two stale builds with terminal jobs that hold their
\* tokens: the update of the first was answered "already finished" and no
\* cancel was sent for it, the update of the second failed and the build was
\* cancelled.
C29_Witness ==
  /\ ev.op = "buildbucketCleanup"
  /\ ev.found = {1, 2}
  /\ JobOfBuild(1).BuildbucketToken # ""
  /\ JobOfBuild(2).BuildbucketToken # ""
  /\ AnsweredAlreadyFinished(ev.calls, 1)
  /\ \A k \in CallsAbout(ev.calls, 1) : ev.calls[k].api # "CancelBuild"
  /\ UpdateFailedOtherwise(ev.calls, 2)
  /\ \E k \in CallsAbout(ev.calls, 2) : ev.calls[k].api = "CancelBuild" /\ ev.calls[k].ok
  /\ ev.ret = Nil

\* The stale builds a cleanup pass has nothing to do for: those of another
\* bucket, those without a job, and those whose job is not terminal.
CleanupSkips(bbs, d, b) ==
  \/ bbs[b].Bucket # buildbucketBucket
  \/ JobsForBuild(d, b) = {}
  \/ \A i \in JobsForBuild(d, b) : ~Done(d[i])

\* C30: a cleanup pass sends no remote call about a stale build that has no
\* local job, that is of another bucket, or whose job is not terminal, and
\* leaves such a build as it is; and the only change it makes to a job
\* record is to empty the lease key and the token of a job whose build it
\* sent a terminal notification for in that pass: no status changes, no job
\* appears or goes, and every other job stays as it is.
C30_CleanupFrame ==
  [][ev'.op = "buildbucketCleanup" =>
       /\ \A b \in ev'.builds :
            CleanupSkips(bb, db, b) =>
              /\ CallsAbout(ev'.calls, b) = {}
              /\ bb'[b] = bb[b]
       /\ DOMAIN db' = DOMAIN db
       /\ \A i \in DOMAIN db :
            /\ db'[i].Status = db[i].Status
            /\ \/ db'[i] = db[i]
               \/ /\ db'[i] = clearedJob(db[i])
                  /\ NotificationSucceeded(ev'.calls, db[i].BuildbucketBuildId)]_vars

\* A cleanup pass met a stale build of another bucket whose job is terminal
\* and a stale build without a job, sent nothing about either, and cancelled
\* nothing.
C30_Witness ==
  /\ ev.op = "buildbucketCleanup"
  /\ Cardinality(ev.builds) = 2
  /\ ev.ret = Nil
  /\ Len(ev.calls) = 1
  /\ \E b, c \in ev.builds :
       /\ bb[b].Bucket # buildbucketBucket
       /\ JobsForBuild(db, b) # {}
       /\ Done(JobOfBuild(b))
       /\ bb[b].Status = STARTED
       /\ bb[c].Bucket = buildbucketBucket
       /\ JobsForBuild(db, c) = {}

\* C31: in an update tick the active jobs fall into three pairwise disjoint
\* sets that cover them (finished, unfinished legacy, unfinished async); the
\* heartbeat sender and the async sender may each end before or after the
\* other and before or after the finished jobs are handled; the tick returns
\* only once all three are done, and its result carries the senders' errors.
C31_TickSplitsAndJoins ==
  [][/\ upd'.pc = "run" =>
          LET f == finishedOf(upd'.jobs)
              v1 == unfinishedV1Of(upd'.jobs)
              v2 == unfinishedV2Of(upd'.jobs)
          IN  /\ f \cup v1 \cup v2 = DOMAIN upd'.jobs
              /\ f \cap v1 = {} /\ f \cap v2 = {} /\ v1 \cap v2 = {}
              /\ \A i \in f : Done(upd'.jobs[i])
              /\ \A i \in v1 : ~Done(upd'.jobs[i]) /\ ~isBBv2(upd'.jobs[i])
              /\ \A i \in v2 : ~Done(upd'.jobs[i]) /\ isBBv2(upd'.jobs[i])
     /\ ev'.op = "sendHeartbeats" =>
          /\ ev'.jobs = Restrict(upd.jobs, unfinishedV1Of(upd.jobs))
          /\ ev'.ret # Nil => <<0, "sendHeartbeats">> \in upd'.errs
     /\ ev'.op = "sendPubsubUpdates" =>
          /\ ev'.jobs = Restrict(upd.jobs, unfinishedV2Of(upd.jobs))
          /\ ev'.ret # Nil => <<0, "sendPubsubUpdates">> \in upd'.errs
     /\ ev'.op = "finished" => ev'.jobs = Restrict(upd.jobs, finishedOf(upd.jobs))
     /\ (upd.pc = "run" /\ upd'.pc = "run") => upd.errs \subseteq upd'.errs
     /\ (upd.pc = "run" /\ upd'.pc = "idle") =>
          /\ upd.fin /\ upd.hb /\ upd.ps
          /\ ev'.op = "updateJobs"
          /\ ev'.errs = upd.errs
          /\ (ev'.errs # {}) => ev'.ret # Nil]_vars

\* The heartbeat sender ended with an error while the async sender, started
\* in the same tick, had not sent its update yet.
C31_Witness ==
  /\ ev.op = "sendHeartbeats"
  /\ ev.ret # Nil
  /\ upd.pc = "run"
  /\ upd.hb /\ ~upd.ps
  /\ unfinishedV1Of(upd.jobs) # {} /\ unfinishedV2Of(upd.jobs) # {}

\* sendHeartbeats on its own, lines 315-420, over more unfinished legacy jobs
\* than a batch holds; the loop of lines 406-414 is taken one batch at a step.
\* The jobs are numbered against the order of their builds, so that the sort
\* of line 319 has work to do, and hold the lease keys 1 and 2 in turn.
MaxHeartbeatJobs == 401
HeartbeatJobCounts == {1, LEASE_BATCH_SIZE, LEASE_BATCH_SIZE + 1, MaxHeartbeatJobs}

HeartbeatJob(i, n) ==
  [StartedJobV1(n + 1 - i) EXCEPT !.Id = i, !.BuildbucketLeaseKey = 1 + (i % 2)]

\* The answers of the service taken for a batch: every lease renewed, or the
\* heartbeat of the first or of the last job of the batch rejected.
BatchResults(batch) ==
  LET renewed == [i \in Range(batch) |-> Nil]
  IN  {renewed}
      \cup {[renewed EXCEPT ![i] = r] :
              i \in {batch[1], batch[Len(batch)]},
              r \in {BUILDBUCKET_API_ERROR_REASON_LEASE_EXPIRED, REASON_OTHER}}

InitHeartbeats ==
  /\ db \in {[i \in 1..n |-> HeartbeatJob(i, n)] : n \in HeartbeatJobCounts}
  /\ jCache = db
  /\ bb = [b \in DOMAIN db |->
             [Status |-> STARTED, LeaseKey |-> db[Len(db) + 1 - b].BuildbucketLeaseKey,
              Old |-> FALSE, Bucket |-> buildbucketBucket]]
  /\ jobsCh = {}
  /\ poll = PollIdle
  /\ starter = StarterIdle
  /\ upd = [pc |-> "send", start |-> db, jobs |-> db,
            rest |-> SortedIds(db, DOMAIN db), errs |-> {}, calls |-> <<>>]
  /\ notified = {}
  /\ crashed = FALSE
  /\ ev = NoEvent
  /\ life = LifeStart

\* Lines 407-413: one turn of the loop, send(jobs[:j]).
HeartbeatsSend ==
  /\ ~crashed
  /\ upd.pc = "send"
  /\ moreBatches(upd.rest, upd.errs)
  /\ LET n == batchLen(upd.rest)
         batch == SubSeq(upd.rest, 1, n)
     IN  \E s \in sendResults(db, jCache, jobsCh, bb, upd.jobs, batch, BatchResults(batch)) :
           /\ db' = s.db
           /\ jCache' = s.jCache
           /\ jobsCh' = s.jobsCh
           /\ bb' = s.bb
           /\ notified' = Notify(notified, s.calls)
           /\ upd' = [upd EXCEPT !.jobs = s.jobs,
                                 !.rest = SubSeq(upd.rest, n + 1, Len(upd.rest)),
                                 !.errs = @ \cup s.errs,
                                 !.calls = @ \o s.calls]
           /\ ev' = [op |-> "send", ret |-> Nil, batch |-> batch,
                     errs |-> {<<0, e>> : e \in s.errs}, calls |-> s.calls]
  /\ UNCHANGED <<poll, starter, crashed>>
  /\ UNCHANGED life

\* Lines 415-419: the loop is over and sendHeartbeats returns.
HeartbeatsEnd ==
  /\ ~crashed
  /\ upd.pc = "send"
  /\ ~moreBatches(upd.rest, upd.errs)
  /\ upd' = [upd EXCEPT !.pc = "done"]
  /\ ev' = [op |-> "sendHeartbeats",
            ret |-> IF upd.errs # {} THEN "got errors sending heartbeats" ELSE Nil,
            jobs |-> upd.start, after |-> upd.jobs, rest |-> upd.rest,
            errs |-> {<<0, e>> : e \in upd.errs}, calls |-> upd.calls]
  /\ UNCHANGED <<db, jCache, bb, jobsCh, poll, starter, notified, crashed>>
  /\ UNCHANGED life

NextHeartbeats == HeartbeatsSend \/ HeartbeatsEnd

SpecHeartbeats == InitHeartbeats /\ [][NextHeartbeats]_vars

\* The heartbeat request at the head of the calls of a send came back with a
\* result list of another length than the batch.
WrongLength(calls) ==
  /\ calls # <<>>
  /\ calls[1].api = "HeartbeatBatch"
  /\ calls[1].resp = "wrong length"

\* C32: when the result list of a heartbeat batch has another length than the
\* batch, an error is recorded, nothing is sent after the request and no job,
\* build or record is changed, nothing crashes, the batches left are still
\* sent, and the pass returns the error.
C32_MismatchFlaggedOnly ==
  [][/\ (ev'.op = "send" /\ WrongLength(ev'.calls)) =>
          /\ "Heartbeat result has incorrect number of jobs" \in upd'.errs
          /\ Len(ev'.calls) = 1
          /\ db' = db /\ jCache' = jCache /\ jobsCh' = jobsCh /\ bb' = bb
          /\ upd'.jobs = upd.jobs
          /\ ~crashed'
          /\ upd.rest = ev'.batch \o upd'.rest
          /\ upd'.pc = "send"
     /\ ev'.op = "sendHeartbeats" =>
          /\ ev'.rest = <<>>
          /\ ~crashed'
          /\ (\E k \in DOMAIN ev'.calls : WrongLength(<<ev'.calls[k]>>)) =>
               /\ ev'.ret # Nil
               /\ <<0, "Heartbeat result has incorrect number of jobs">> \in ev'.errs]_vars

\* A pass of three batches: the answer to the first had the wrong length, the
\* two after it were sent all the same and renewed every lease.
C32_Witness ==
  /\ ev.op = "sendHeartbeats"
  /\ Len(ev.calls) = 3
  /\ WrongLength(ev.calls)
  /\ ev.calls[2].api = "HeartbeatBatch" /\ ev.calls[2].resp = Nil
  /\ ev.calls[3].api = "HeartbeatBatch" /\ ev.calls[3].resp = Nil
  /\ ev.after = ev.jobs
  /\ ev.ret # Nil

\* Start on its own, lines 164-207: the context given to Start, the three
\* periodic loops and startJobsLoop.  A tick is taken as the sequence of the
\* calls it hands its context to; life holds, for each loop, how many of them
\* the tick under way has made.
Loops == {"update", "poll", "cleanup"}

\* The calls of a tick that take the tick's context, in order.
TickCalls(loop) ==
  IF loop = "update"
    THEN <<"jCache.Update", "sendPubSub", "jobFinished", "db.PutJobsInChunks">>
  ELSE IF loop = "poll"
    THEN <<"jCache.Update", "insertNewJobV1">>
  ELSE <<"bb2.Search", "findJobForBuild", "updateBuild">>

\* Lines 172, 185-186 and 199-200: the context a tick hands to its handler.
TickContext(loop) == IF loop = "update" THEN "ctx" ELSE "background"

\* The context is not cancelled: context.Background() never is.
Live(context, done) == context = "background" \/ ~done

\* The context given to Start is cancelled: the shutdown signal.
Shutdown ==
  /\ ~life.done
  /\ life' = [life EXCEPT !.done = TRUE]
  /\ ev' = [op |-> "shutdown", ret |-> Nil, calls |-> <<>>]
  /\ UNCHANGED <<db, jCache, bb, jobsCh, poll, starter, upd, notified, crashed>>

\* A tick of a periodic loop makes its next call; a loop that has been told to
\* stop begins no new tick (lines 162-163).
TickCall(loop) ==
  /\ life[loop] < Len(TickCalls(loop))
  /\ life[loop] = 0 => ~life.done
  /\ life' = [life EXCEPT ![loop] = @ + 1]
  /\ ev' = [op |-> "tick", loop |-> loop, call |-> TickCalls(loop)[life[loop] + 1],
            context |-> TickContext(loop),
            live |-> Live(TickContext(loop), life.done), ret |-> Nil, calls |-> <<>>]
  /\ UNCHANGED <<db, jCache, bb, jobsCh, poll, starter, upd, notified, crashed>>

\* The handler of a tick returns.
TickReturn(loop) ==
  /\ life[loop] = Len(TickCalls(loop))
  /\ life' = [life EXCEPT ![loop] = 0]
  /\ ev' = [op |-> "tickReturn", loop |-> loop, ret |-> Nil, calls |-> <<>>]
  /\ UNCHANGED <<db, jCache, bb, jobsCh, poll, starter, upd, notified, crashed>>

\* startJobsLoop, lines 682-710: the select takes jobs (from the channel or
\* on the ticker) or, once the context is done, may take doneCh and return.
StarterSelect ==
  /\ life.starter = "select"
  /\ \/ life' = [life EXCEPT !.starter = "startJob"]
     \/ life.done /\ life' = [life EXCEPT !.starter = "stopped"]
  /\ ev' = [op |-> "select", taken |-> life'.starter, ret |-> Nil, calls |-> <<>>]
  /\ UNCHANGED <<db, jCache, bb, jobsCh, poll, starter, upd, notified, crashed>>

\* Lines 690 and 701: startJob with the context of Start.
StarterStartJob ==
  /\ life.starter = "startJob"
  /\ life' = [life EXCEPT !.starter = "select"]
  /\ ev' = [op |-> "starter", call |-> "startJob", context |-> "ctx",
            live |-> Live("ctx", life.done), ret |-> Nil, calls |-> <<>>]
  /\ UNCHANGED <<db, jCache, bb, jobsCh, poll, starter, upd, notified, crashed>>

InitShutdown == Init

NextShutdown ==
  \/ Shutdown
  \/ \E loop \in Loops : TickCall(loop)
  \/ \E loop \in Loops : TickReturn(loop)
  \/ StarterSelect
  \/ StarterStartJob

SpecShutdown == InitShutdown /\ [][NextShutdown]_vars

\* C33: a tick of a periodic loop that is under way when the context of Start
\* is cancelled goes on to its end, and every call it makes, before or after
\* the cancellation, is given a context that is not cancelled; startJobsLoop
\* is the only loop that returns on the signal.
C33_TicksRunDetached ==
  /\ ev.op = "tick" => ev.live
  /\ (life.done /\ life.starter = "stopped") => ev.op # "starter"

\* jobFinished on its own, lines 990-1021: one job of either protocol and of
\* any status, for a build the service has running or has ended already.
JobFinishedBuilds == 1..MaxLeases
JobStatuses ==
  {JOB_STATUS_REQUESTED, JOB_STATUS_IN_PROGRESS, JOB_STATUS_SUCCESS, JOB_STATUS_FAILURE,
   JOB_STATUS_MISHAP, JOB_STATUS_CANCELED}

InitJobFinished ==
  /\ db \in {<<[j EXCEPT !.Id = 1, !.Status = st]>> :
               j \in {StartedJobV1(b) : b \in JobFinishedBuilds}
                     \cup {StartedJobV2(b) : b \in JobFinishedBuilds},
               st \in JobStatuses}
  /\ jCache = db
  /\ bb \in [JobFinishedBuilds ->
               {[Status |-> s, LeaseKey |-> 1, Old |-> FALSE, Bucket |-> buildbucketBucket]
                : s \in {STARTED, ENDED}}]
  /\ jobsCh = {}
  /\ poll = PollIdle
  /\ starter = StarterIdle
  /\ upd = UpdIdle
  /\ notified = {}
  /\ crashed = FALSE
  /\ ev = NoEvent
  /\ life = LifeStart

\* One call of jobFinished for the job.
JobFinishedCall ==
  /\ \E f \in jobFinished(bb, db[1]) :
       /\ bb' = f.bb
       /\ notified' = Notify(notified, f.calls)
       /\ ev' = [op |-> "jobFinished", job |-> db[1], ret |-> f.err, calls |-> f.calls]
  /\ UNCHANGED <<db, jCache, jobsCh, poll, starter, upd, crashed, life>>

NextJobFinished == JobFinishedCall

SpecJobFinished == InitJobFinished /\ [][NextJobFinished]_vars

\* C34: for a terminal job jobFinished sends one terminal notification, of
\* the kind its protocol and status select: legacy and SUCCESS, succeed;
\* legacy otherwise, fail, with the reason INFRA_FAILURE for MISHAP and
\* BUILD_FAILURE for the rest; async and CANCELED, cancelBuild; async
\* otherwise, updateBuild.  For a job that is not terminal it returns an error
\* and calls nothing.
C34_NotificationByProtocolAndStatus ==
  ev.op = "jobFinished" =>
    LET j == ev.job
        terminal == {k \in DOMAIN ev.calls : ev.calls[k].api \in TerminalApis}
    IN  IF ~Done(j)
          THEN ev.calls = <<>> /\ ev.ret # Nil
          ELSE /\ terminal = {1}
               /\ \A k \in DOMAIN ev.calls :
                    /\ ev.calls[k].build = j.BuildbucketBuildId
                    /\ k # 1 => ev.calls[k].api = "Publish"
               /\ ev.calls[1].api =
                    (IF isBBv2(j)
                       THEN IF j.Status = JOB_STATUS_CANCELED THEN "CancelBuild" ELSE "UpdateBuild"
                       ELSE IF j.Status = JOB_STATUS_SUCCESS THEN "Succeed" ELSE "Fail")
               /\ ev.calls[1].api = "Fail" =>
                    ev.calls[1].reason =
                      (IF j.Status = JOB_STATUS_MISHAP THEN "INFRA_FAILURE" ELSE "BUILD_FAILURE")

\* A legacy job that ended as MISHAP was reported with bb.Fail and the reason
\* INFRA_FAILURE, and the service took the report.
C34_Witness ==
  /\ ev.op = "jobFinished"
  /\ ~isBBv2(ev.job)
  /\ ev.job.Status = JOB_STATUS_MISHAP
  /\ ev.ret = Nil
  /\ Len(ev.calls) = 1
  /\ ev.calls[1].api = "Fail"
  /\ ev.calls[1].resp = Nil
  /\ ev.calls[1].reason = "INFRA_FAILURE"

\* The heartbeat requests among the calls of a step.
HeartbeatCalls(calls) == {k \in DOMAIN calls : calls[k].api = "HeartbeatBatch"}

\* C35: a heartbeat pass starts from a list that holds every job it was given
\* once; every turn of its loop takes the jobs at the head of the list, at
\* most 200 of them, and sends one heartbeat request with one entry per job
\* taken, in order, carrying the build id and the lease key of the job and one
\* expiration time; the pass ends with the list empty, so every job was in
\* exactly one batch, and the expiration time is the same in all batches.
C35_EveryJobInOneBatch ==
  [][/\ (upd.pc = "send" /\ upd.calls = <<>>) =>
          /\ Len(upd.rest) = Cardinality(DOMAIN upd.start)
          /\ Range(upd.rest) = DOMAIN upd.start
     /\ ev'.op = "send" =>
          LET batch == ev'.batch
              hb == ev'.calls[1]
          IN  /\ HeartbeatCalls(ev'.calls) = {1}
              /\ Len(batch) >= 1
              /\ Len(batch) <= 200
              /\ upd.rest = batch \o upd'.rest
              /\ Len(hb.heartbeats) = Len(batch)
              /\ \A k \in DOMAIN batch :
                   /\ hb.heartbeats[k].BuildId = upd.start[batch[k]].BuildbucketBuildId
                   /\ hb.heartbeats[k].LeaseKey = upd.start[batch[k]].BuildbucketLeaseKey
                   /\ hb.heartbeats[k].LeaseExpirationTs = hb.heartbeats[1].LeaseExpirationTs
                   /\ hb.heartbeats[k].LeaseExpirationTs > Now
     /\ ev'.op = "sendHeartbeats" =>
          LET hbs == HeartbeatCalls(ev'.calls)
              n == Cardinality(DOMAIN ev'.jobs)
          IN  /\ ev'.rest = <<>>
              /\ Cardinality(hbs) * 200 >= n
              /\ (Cardinality(hbs) - 1) * 200 < n
              /\ \A k, l \in hbs :
                   ev'.calls[k].heartbeats[1].LeaseExpirationTs
                     = ev'.calls[l].heartbeats[1].LeaseExpirationTs]_vars

\* A pass over more jobs than two batches hold: three requests and nothing
\* else were sent, the first two with a full batch, the last with the rest.
C35_Witness ==
  /\ ev.op = "sendHeartbeats"
  /\ Cardinality(DOMAIN ev.jobs) > 2 * LEASE_BATCH_SIZE
  /\ Len(ev.calls) = 3
  /\ HeartbeatCalls(ev.calls) = {1, 2, 3}
  /\ Len(ev.calls[1].heartbeats) = LEASE_BATCH_SIZE
  /\ Len(ev.calls[2].heartbeats) = LEASE_BATCH_SIZE
  /\ Len(ev.calls[3].heartbeats) = Cardinality(DOMAIN ev.jobs) - 2 * LEASE_BATCH_SIZE
  /\ ev.ret = Nil

\* The entries of the heartbeat requests of a step that name build b.
HeartbeatEntries(calls, b) ==
  {<<k, n>> \in HeartbeatCalls(calls) \X (1..BatchJobs) :
     /\ n \in DOMAIN calls[k].heartbeats
     /\ calls[k].heartbeats[n].BuildId = b}

\* C36: nothing is sent a second time within a tick.  The finished jobs, the
\* heartbeats and the async updates are each gone through once per update
\* tick; a finished job gets at most one terminal notification; an unfinished
\* legacy job is in one heartbeat entry, gets one lease request when the
\* answer was "lease expired" and none otherwise, and at most one remote
\* cancel; startJob makes at most one start call, and no job is twice in the
\* list startJobsLoop works through.
C36_NoRetryWithinTick ==
  [][/\ ev'.op = "finished" =>
          /\ ~upd.fin /\ upd'.fin
          /\ \A i \in DOMAIN ev'.jobs :
               Cardinality(TerminalCalls(ev'.calls, ev'.jobs[i].BuildbucketBuildId)) <= 1
     /\ ev'.op = "sendPubsubUpdates" =>
          /\ ~upd.ps /\ upd'.ps
          /\ \A i \in DOMAIN ev'.jobs :
               Cardinality(CallsAbout(ev'.calls, ev'.jobs[i].BuildbucketBuildId)) = 1
     /\ ev'.op = "sendHeartbeats" =>
          /\ ~upd.hb /\ upd'.hb
          /\ Cardinality(HeartbeatCalls(ev'.calls)) = 1
          /\ \A i \in DOMAIN ev'.jobs :
               LET b == ev'.jobs[i].BuildbucketBuildId
                   about == CallsAbout(ev'.calls, b)
               IN  /\ Cardinality(HeartbeatEntries(ev'.calls, b)) = 1
                   /\ Cardinality(about \cap CallsOf(ev'.calls, "Lease"))
                        = IF i \in LeaseExpiredJobs(ev') THEN 1 ELSE 0
                   /\ Cardinality(about \cap CallsOf(ev'.calls, "Cancel")) <= 1
     /\ ev'.op = "startJob" => Cardinality(CallsOf(ev'.calls, "Start")) <= 1
     /\ \A m, n \in DOMAIN starter'.todo :
          starter'.todo[m].Id = starter'.todo[n].Id => m = n]_vars

\* The heartbeat of a job was rejected with "lease expired", the one lease
\* request that followed failed, and nothing more was sent about the build.
C36_Witness ==
  /\ ev.op = "sendHeartbeats"
  /\ \E i \in LeaseExpiredJobs(ev) :
       LET about == CallsAbout(ev.calls, ev.jobs[i].BuildbucketBuildId)
       IN  /\ Cardinality(about) = 1
           /\ \A k \in about : ev.calls[k].api = "Lease" /\ ~ev.calls[k].ok

\* Poll on its own, lines 840-885, against a service that holds PollBuilds
\* pending builds and answers with up to PollPages pages of them.
PollPages == 2
PollBuilds == 2

InitPoll ==
  /\ db = <<>>
  /\ jCache = <<>>
  /\ bb = [b \in 1..PollBuilds |-> [Status |-> SCHEDULED, LeaseKey |-> 0, Old |-> FALSE,
                                    Bucket |-> buildbucketBucket]]
  /\ jobsCh = {}
  /\ poll = PollIdle
  /\ starter = StarterIdle
  /\ upd = UpdIdle
  /\ notified = {}
  /\ crashed = FALSE
  /\ ev = NoEvent
  /\ life = LifeStart

NextPoll ==
  \/ PollBegin
  \/ PollPeekOf(1..PollBuilds, PollPages)
  \/ \E b \in 1..PollBuilds : PollInsert(b)
  \/ PollJoin

SpecPoll == InitPoll /\ [][NextPoll]_vars

\* Every build of every page served so far in the pass was handed to a
\* goroutine of its own once, and nothing else was handed.
EveryBuildHandedOnce(p) ==
  /\ \A k \in DOMAIN p.served : \A b \in p.served[k].builds :
       Cardinality({n \in DOMAIN p.handed : p.handed[n] = <<k, b>>}) = 1
  /\ \A n \in DOMAIN p.handed :
       /\ p.handed[n][1] \in DOMAIN p.served
       /\ p.handed[n][2] \in p.served[p.handed[n][1]].builds

\* The cursor the service returned last in the pass (0: the empty cursor, as
\* at the start of the pass).
LastCursor(p) == IF p.served = <<>> THEN 0 ELSE p.served[Len(p.served)].nextCursor

\* C37: every page request of an intake pass carries the cursor the service
\* returned with the page before (the empty one at first) and is sent only
\* when the work for every build of the pages before is over; the pass ends
\* only on a failed page request or on an empty cursor, and goes on while the
\* cursor is not empty; when it ends on an empty cursor, every build of every
\* page was handed to the per-build routine exactly once.
C37_PagesFollowCursor ==
  [][/\ (ev'.calls # <<>> /\ ev'.calls[1].api = "Peek") =>
          /\ poll.pc = "peek"
          /\ ev'.calls[1].cursor = LastCursor(poll)
          /\ poll.todo = {}
          /\ EveryBuildHandedOnce(poll)
     /\ (ev'.op = "Poll" /\ poll.pc = "page") =>
          /\ LastCursor(poll) = 0
          /\ poll.todo = {}
          /\ EveryBuildHandedOnce(poll)
     /\ (ev'.op = "Poll" /\ poll.pc = "peek") =>
          /\ ev'.calls # <<>> /\ ~ev'.calls[1].ok
          /\ ev'.ret # Nil
     /\ (poll.pc = "page" /\ poll'.pc # "page") =>
          /\ poll.todo = {}
          /\ LastCursor(poll) # 0 => (poll'.pc = "peek" /\ poll'.cursor = LastCursor(poll))
     /\ (poll.pc = "page" /\ poll'.pc = "page") =>
          /\ poll'.served = poll.served
          /\ Len(poll'.handed) = Len(poll.handed) + 1]_vars

\* A pass of two pages, the first with both builds, the second, fetched with
\* the cursor of the first, with one at least: every build of either page
\* was handed once and the service returned the empty cursor.
C37_Witness ==
  /\ poll.pc = "page"
  /\ Len(poll.served) = 2
  /\ poll.served[1].builds = 1..PollBuilds
  /\ poll.served[1].nextCursor # 0
  /\ poll.served[2].cursor = poll.served[1].nextCursor
  /\ poll.served[2].builds # {}
  /\ poll.served[2].nextCursor = 0
  /\ poll.todo = {}
  /\ EveryBuildHandedOnce(poll)
  /\ Len(poll.handed) > PollBuilds

\* Poll against a service whose pending builds may be in any state when
\* intake examines them (lines 579-595): started or ended by someone else
\* since they were listed.
InitExamine ==
  /\ db = <<>>
  /\ jCache = <<>>
  /\ bb \in [Builds -> {[Status |-> s, LeaseKey |-> 0, Old |-> FALSE, Bucket |-> buildbucketBucket]
                        : s \in {SCHEDULED, STARTED, ENDED}}]
  /\ jobsCh = {}
  /\ poll = PollIdle
  /\ starter = StarterIdle
  /\ upd = UpdIdle
  /\ notified = {}
  /\ crashed = FALSE
  /\ ev = NoEvent
  /\ life = LifeStart

NextExamine ==
  \/ PollBegin
  \/ PollPeek
  \/ \E b \in Builds : PollInsert(b)
  \/ PollJoin
  \/ \E b \in Builds : RemoteEnd(b)

SpecExamine == InitExamine /\ [][NextExamine]_vars

\* C38: when intake examines a build whose status is not SCHEDULED, it sends
\* one lease request and, if the lease was granted, one cancel, and nothing
\* else; it creates no job for the build and writes nothing.
C38_NoJobUnlessScheduled ==
  [][(/\ ev'.op = "insertNewJobV1"
      /\ ev'.input # NoInput
      /\ bb[ev'.build].Status # SCHEDULED) =>
       /\ db' = db
       /\ jCache' = jCache
       /\ JobsForBuild(db', ev'.build) = {}
       /\ ev'.job = 0
       /\ Len(ev'.calls) \in {1, 2}
       /\ ev'.calls[1].api = "Lease"
       /\ Len(ev'.calls) = 1 => ~ev'.calls[1].ok
       /\ Len(ev'.calls) = 2 => (ev'.calls[1].ok /\ ev'.calls[2].api = "Cancel")]_vars

\* The lease request a heartbeat step sent for build b was granted.
ReLeased(calls, b) ==
  \E k \in CallsAbout(calls, b) : calls[k].api = "Lease" /\ calls[k].ok

\* C39: when the heartbeat of a job was rejected with "lease expired" and
\* the lease request that followed was granted, the lease key the service
\* holds for the build from then on is the one the database and the cache
\* hold for the job, which the heartbeats and the terminal notification of
\* the later ticks are made from.
C39_NewLeaseKeyStored ==
  ev.op = "sendHeartbeats" =>
    \A i \in LeaseExpiredJobs(ev) :
      LET b == ev.jobs[i].BuildbucketBuildId
      IN  ReLeased(ev.calls, b) =>
            /\ db[i].BuildbucketLeaseKey = bb[b].LeaseKey
            /\ jCache[i].BuildbucketLeaseKey = bb[b].LeaseKey

\* C40: after the reconciler has gone through the finished jobs, and at the
\* end of the update tick, the cache and the database hold the same lease key
\* and the same update token for every job: an emptied record is in the cache
\* only if it is in the database too, also when the write to the database
\* failed.
C40_CacheAgreesWithDatabase ==
  (ev.op \in {"finished", "updateJobs"}) =>
    \A i \in DOMAIN db \cap DOMAIN jCache :
      /\ jCache[i].BuildbucketLeaseKey = db[i].BuildbucketLeaseKey
      /\ jCache[i].BuildbucketToken = db[i].BuildbucketToken

====
